---- MODULE Spec2Model ----
(***************************************************************************)
(* Hardware bring-up and timekeeping core of the kernel: descriptor        *)
(* tables, Local APIC / I/O APIC programming, LAPIC timer calibration      *)
(* against the PIT, the interrupt handlers and the delay primitives.       *)
(*                                                                         *)
(* One hardware thread.  The main flow is a program counter (pc); an       *)
(* interrupt or exception handler preempts it (hnd) and runs with the      *)
(* interrupt flag cleared (interrupt gates).  The PIT, the LAPIC timer and *)
(* the interrupt controllers are hardware actions that interleave freely.  *)
(*                                                                         *)
(* TLC integers are 32-bit, so the two machine widths are scaled: U32_MAX  *)
(* stands for u32::MAX (the LAPIC count registers) and USIZE_MAX for       *)
(* usize::MAX (the tick counter, the millisecond count).  Register words   *)
(* that carry flag bits (bit 16 mask, bit 17 periodic) keep their real     *)
(* layout.                                                                 *)
(***************************************************************************)
EXTENDS Integers, Sequences, FiniteSets, TLC

\* ------------------------------------------------------------------ bounds
\* stands for u32::MAX, the largest LAPIC timer count
U32_MAX == 25
\* stands for usize::MAX, the largest value of Wrapping<usize>
USIZE_MAX == 40
\* redirection entries per I/O APIC
MaxRedir == 2
\* I/O APICs in the platform description are 1 .. MaxIoApics
MaxIoApics == 2
\* interrupts the hardware raises in one run
MaxIrq == 3
\* saturation point of the ghost counters
GhostCap == 3

\* ------------------------------------------------------- program constants
APIC_TIMER_PERIODIC == 131072
APIC_MASKED == 65536
IOAPICVER == 1
IOREDTBL_BASE == 16
SVR_ENABLE == 256
TimerVector == 32
ScratchTimerVector == 33
BreakpointVector == 3
DoubleFaultVector == 8
PageFaultVector == 14
DOUBLE_FAULT_IST_INDEX == 0
STACK_SIZE == 20480
TIMER_DIVIDE == 3
PIT_DIVIDER == 11932
PIT_COMMAND == 52
DEST_SHIFT == 24
MICROS_PER_MILLI == 1000
UDELAY_DIVISOR == 10000
MDELAY_STEP == 10

\* ----------------------------------------------------------- bit helpers
RECURSIVE BitOr(_, _)
BitOr(a, b) ==
    IF a = 0 THEN b
    ELSE IF b = 0 THEN a
    ELSE (IF a % 2 = 1 \/ b % 2 = 1 THEN 1 ELSE 0) + 2 * BitOr(a \div 2, b \div 2)

RECURSIVE Pow2(_)
Pow2(n) == IF n = 0 THEN 1 ELSE 2 * Pow2(n - 1)

Shl(v, n) == v * Pow2(n)
Shr(v, n) == v \div Pow2(n)

\* bit 16 of a redirection entry or of a local-vector-table register
IsMasked(v) == (v \div APIC_MASKED) % 2 = 1
\* bit 17 of the LVT timer register
IsPeriodic(v) == (v \div APIC_TIMER_PERIODIC) % 2 = 1
\* bits 0..7: the interrupt vector
VectorOf(v) == v % 256

\* mutant: the sum saturates at the largest value instead of wrapping
SaturatingAdd(a, b) == IF a + b > USIZE_MAX THEN USIZE_MAX ELSE a + b

\* Wrapping<usize> arithmetic
WrapAdd(a, b) == (a + b) % (USIZE_MAX + 1)

\* mutant: the difference is taken without wrapping
PlainSub(a, b) == a - b

WrapSub(a, b) == (a - b + (USIZE_MAX + 1)) % (USIZE_MAX + 1)

Min(a, b) == IF a < b THEN a ELSE b
Bump(c) == Min(c + 1, GhostCap)

\* ------------------------------------------------------ descriptor tables
\* interrupts.rs TSS: slot DOUBLE_FAULT_IST_INDEX holds the top of the static
\* STACK (stack_start + STACK_SIZE); the other slots stay null.
NoStack == [region |-> "none", offset |-> 0]
KernelStack == [region |-> "KERNEL_STACK", offset |-> 0]
TSS ==
    [interrupt_stack_table |->
        [i \in 0..6 |-> IF i = DOUBLE_FAULT_IST_INDEX
                        THEN [region |-> "DOUBLE_FAULT_STACK", offset |-> STACK_SIZE]
                        ELSE NoStack]]

\* no interrupt-stack-table index: the entry does not switch stacks
NoIst == 0 - 1

\* mutant: the double-fault entry without set_stack_index
IDTNoStackIndex ==
    [v \in {BreakpointVector, DoubleFaultVector, PageFaultVector,
            TimerVector, ScratchTimerVector} |->
        CASE v = BreakpointVector -> [handler |-> "breakpoint_handler", ist |-> NoIst]
          [] v = DoubleFaultVector -> [handler |-> "double_fault_handler", ist |-> NoIst]
          [] v = PageFaultVector -> [handler |-> "page_fault_handler", ist |-> NoIst]
          [] v = TimerVector -> [handler |-> "timer_interrupt_handler", ist |-> NoIst]
          [] v = ScratchTimerVector ->
                [handler |-> "scratch_timer_interrupt_handler", ist |-> NoIst]]

\* interrupts.rs IDT: vector -> handler and interrupt-stack-table index
IDT ==
    [v \in {BreakpointVector, DoubleFaultVector, PageFaultVector,
            TimerVector, ScratchTimerVector} |->
        CASE v = BreakpointVector -> [handler |-> "breakpoint_handler", ist |-> NoIst]
          [] v = DoubleFaultVector ->
                [handler |-> "double_fault_handler", ist |-> DOUBLE_FAULT_IST_INDEX]
          [] v = PageFaultVector -> [handler |-> "page_fault_handler", ist |-> NoIst]
          [] v = TimerVector -> [handler |-> "timer_interrupt_handler", ist |-> NoIst]
          [] v = ScratchTimerVector ->
                [handler |-> "scratch_timer_interrupt_handler", ist |-> NoIst]]

\* the stack the processor runs an IDT entry on, entered from stack cur
EntryStack(entry, cur) ==
    IF entry.ist = NoIst THEN cur ELSE TSS.interrupt_stack_table[entry.ist]

\* ---------------------------------------------------- platform description
\* What the firmware tables say (acpi::PlatformInfo) together with the
\* hardware they describe.  Every I/O APIC has MaxRedir redirection
\* entries and the global interrupt ranges are
\* contiguous and disjoint.  ISA IRQ 0 is overridden to global interrupt 0,
\* to 2 (the usual remap) or to MaxGsi, which no I/O APIC serves.
MaxGsi == MaxIoApics * MaxRedir
BspId == 1
LegacyOverride == [isa_source |-> 9, global_system_interrupt |-> 9]

\* the IOAPICVER register of an I/O APIC with n redirection entries
VersionOf(n) == Shl(n - 1, 16) + 17

IoApicLists ==
    { [a \in 1..len |-> [global_system_interrupt_base |-> (a - 1) * n,
                         version |-> VersionOf(n)]] :
        len \in 0..MaxIoApics, n \in {MaxRedir} }

OverrideLists ==
    { <<LegacyOverride>> } \cup
    { <<LegacyOverride, [isa_source |-> 0, global_system_interrupt |-> g]>> :
        g \in {0, 2, MaxGsi} }

Platforms ==
    { [interrupt_model |-> "Apic", interrupt_source_overrides |-> ov,
       io_apics |-> io, processor_info |-> TRUE, boot_processor |-> BspId] :
        ov \in OverrideLists, io \in IoApicLists }
    \cup
    { [interrupt_model |-> m, interrupt_source_overrides |-> <<LegacyOverride,
            [isa_source |-> 0, global_system_interrupt |-> 0]>>,
       io_apics |-> <<[global_system_interrupt_base |-> 0, version |-> VersionOf(1)]>>,
       processor_info |-> p, boot_processor |-> BspId] :
        <<m, p>> \in {<<"Unknown", TRUE>>, <<"Apic", FALSE>>} }

\* --------------------------------------------------------------- registers
LAPIC_EOI_REG == 176
LAPIC_SVR_REG == 240
LAPIC_LVT_TIMER_REG == 800
LAPIC_LVT_LINT0_REG == 848
LAPIC_LVT_LINT1_REG == 864
LAPIC_TIMER_INITCNT_REG == 896
LAPIC_TIMER_CURRCNT_REG == 912
LAPIC_TIMER_DIV_REG == 992

LapicOffsets ==
    {LAPIC_EOI_REG, LAPIC_SVR_REG, LAPIC_LVT_TIMER_REG, LAPIC_LVT_LINT0_REG,
     LAPIC_LVT_LINT1_REG, LAPIC_TIMER_INITCNT_REG, LAPIC_TIMER_CURRCNT_REG,
     LAPIC_TIMER_DIV_REG}

\* the largest value of a u8 (the redirection-entry count and the register
\* index of an I/O APIC are u8)
U8_MAX == 255
\* does the number fit a u8
Fits8(x) == x <= U8_MAX
\* the u8 a wrapping operation leaves
Wrap8(x) == x % (U8_MAX + 1)

\* init_ioapic: number of redirection entries from the version register,
\* (ioapicver >> 16) as u8 + 1, as a number (RedirVersion has the u8 sum)
MaxRedirCount(ioapicver) == (Shr(ioapicver, 16) % 256) + 1
\* init_ioapic: register index of the low word of entry idx, 0x10 + idx * 2,
\* as a number (RedirEntry has the u8 product and sum)
RedirReg(idx) == IOREDTBL_BASE + idx * 2

\* the register file of an I/O APIC as the boot loader leaves it: every
\* redirection entry masked, its other bits arbitrary (here a legacy vector)
IoApicReset(version) ==
    [r \in {IOAPICVER} \cup
           IOREDTBL_BASE .. (IOREDTBL_BASE + 2 * MaxRedirCount(version) - 1) |->
        IF r = IOAPICVER THEN version
        ELSE IF (r - IOREDTBL_BASE) % 2 = 0
             THEN APIC_MASKED + 48 + (r - IOREDTBL_BASE) \div 2
             ELSE 0]

VARIABLES
    platform,            \* the platform description handed to setup::init
    ioapic,              \* I/O APIC register files, one per I/O APIC
    lapicReg,            \* Local APIC registers by offset
    pit,                 \* PIT channel 0 programming
    pic,                 \* state of the legacy dual PIC
    irr,                 \* interrupts pending in the Local APIC: {[vec, src]}
    isr,                 \* vectors in service (delivered, not yet acknowledged)
    IFLAG,               \* the processor's interrupt flag (RFLAGS.IF)
    hnd,                 \* the running handler, or name "none"
    stack,               \* the stack the processor is executing on
    tables,              \* which descriptor tables / selectors are loaded
    LAPIC,               \* time.rs static LAPIC: is the handle published
    TIMER,               \* time.rs static TIMER
    SCRATCH_TIMER,       \* interrupts.rs static SCRATCH_TIMER
    APIC_TICKS_IN_10MS,  \* time.rs static APIC_TICKS_IN_10MS
    pc,                  \* position of the main flow
    loc,                 \* locals of the main flow
    panicMsg,            \* message of the panic that stopped the kernel
    lastIncSrc,          \* ghost: device behind the last increment of TIMER
    irqCount,            \* ghost: interrupts raised so far
    udElapsed,           \* ghost: LAPIC ticks since udelay's first read
    mdIncs,              \* ghost: increments of TIMER since mdelay's entry
    calIncs,             \* ghost: increments of TIMER since calibration's reads and
                         \* arming, kept until the measurement is read
    eoiBy,               \* ghost: vectors whose handler has written end-of-interrupt
    visited              \* ghost: register indices init_ioapic's loop has written, in order

hwVars == <<ioapic, lapicReg, pit, pic, irr, isr>>
cpuVars == <<IFLAG, hnd, stack, tables>>
memVars == <<LAPIC, TIMER, SCRATCH_TIMER, APIC_TICKS_IN_10MS>>
mainVars == <<pc, loc, panicMsg>>
ghostVars == <<lastIncSrc, irqCount, udElapsed, mdIncs, calIncs, eoiBy, visited>>
vars == <<platform, hwVars, cpuVars, memVars, mainVars, ghostVars>>

NoHandler ==
    [name |-> "none", vec |-> 0, src |-> "none", time |-> 0,
     savedIF |-> FALSE, savedStack |-> NoStack, log |-> <<>>]

NoLocals ==
    [ioapic |-> 0, pitreg |-> 0, saved_pit_cnt |-> 0, curr_pit_cnt |-> 0,
     remaining_count |-> 0, apic_ticks_in_10ms |-> 0, dur |-> 0, delay_ticks |-> 0, current_tick |-> 0,
     millis |-> 0, curr_irq_cnt |-> 0, reg |-> 0, ioapicver |-> 0, max_redir_count |-> 0,
     idx |-> 0]

NoTables == [gdt |-> FALSE, cs |-> FALSE, tss |-> FALSE, idt |-> FALSE]

\* no increment of TIMER handled since the read of saved_pit_cnt, since the
\* latest read of curr_pit_cnt, since the arming write
NoIncs == [saved |-> 0, curr |-> 0, arm |-> 0]

\* Entry to kernel_start: the boot loader hands over with interrupts
\* disabled, on its own stack, the I/O APIC entries masked, the Local APIC
\* in its reset state (timer stopped, LVT timer masked) and the statics at
\* their initialisers.
Init ==
    /\ platform \in Platforms
    /\ ioapic = [a \in 1..Len(platform.io_apics) |->
                    IoApicReset(platform.io_apics[a].version)]
    /\ lapicReg = [o \in LapicOffsets |->
                    CASE o = LAPIC_SVR_REG -> 255
                      [] o = LAPIC_LVT_TIMER_REG -> APIC_MASKED
                      [] o = LAPIC_LVT_LINT0_REG -> 1792
                      [] o = LAPIC_LVT_LINT1_REG -> 1024
                      [] OTHER -> 0]
    /\ pit = [command |-> 0, reload |-> 0]
    /\ pic = "reset"
    /\ irr = {}
    /\ isr = {}
    /\ IFLAG = FALSE
    /\ hnd = NoHandler
    /\ stack = KernelStack
    /\ tables = NoTables
    /\ LAPIC = FALSE
    /\ TIMER = 0
    /\ SCRATCH_TIMER = 0
    /\ APIC_TICKS_IN_10MS = 0
    /\ pc = "kernel_start"
    /\ loc = NoLocals
    /\ panicMsg = "none"
    /\ lastIncSrc = "none"
    /\ irqCount = 0
    /\ udElapsed = 0
    /\ mdIncs = 0
    /\ calIncs = NoIncs
    /\ eoiBy = {}
    /\ visited = <<>>

\* the main flow executes (it is not preempted by a handler)
Running == hnd.name = "none"

\* ------------------------------------------------------- register access
\* Lapic::write_register: a write of the initial count also loads the
\* current count and starts the countdown.
LapicWrite(regs, offset, value) ==
    IF offset = LAPIC_TIMER_INITCNT_REG
    THEN [regs EXCEPT ![LAPIC_TIMER_INITCNT_REG] = value,
                      ![LAPIC_TIMER_CURRCNT_REG] = value]
    ELSE [regs EXCEPT ![offset] = value]

\* Lapic::read_register
LapicRead(regs, offset) == regs[offset]

\* panic!/expect failure: setup.rs panic_handler logs the message and
\* enters utils::hlt_loop
Panic(msg) ==
    /\ pc' = "hlt_loop"
    /\ panicMsg' = msg
    /\ loc' = loc

\* mutant: leaving the critical section always sets the interrupt flag
WithoutInterruptsEnabling(flag) == TRUE

\* serial::_print: without_interrupts(|| ..) around the write of a log line:
\* the interrupt flag after it, entered with flag (the previous state is
\* restored)
WithoutInterrupts(flag) == flag

\* ------------------------------------------------------------ setup::init
\* main.rs kernel_start up to the call of interrupts::init (serial log,
\* memory manager initialisation)
KernelStart ==
    /\ Running /\ pc = "kernel_start"
    /\ IFLAG' = WithoutInterrupts(IFLAG)
    /\ pc' = "gdt_load"
    /\ UNCHANGED <<platform, hwVars, hnd, stack, tables, memVars, loc, panicMsg, ghostVars>>

\* mutant: the interrupt table is loaded first, the descriptor table last
LoadOrderIdtFirst == <<"idt", "cs", "tss", "gdt">>

\* interrupts::init: what its four statements load, in program order
LoadOrder == <<"gdt", "cs", "tss", "idt">>

\* interrupts::init, GDT.0.load()
GdtLoad ==
    /\ Running /\ pc = "gdt_load"
    /\ tables' = [tables EXCEPT ![LoadOrder[1]] = TRUE]
    /\ pc' = "set_cs"
    /\ UNCHANGED <<platform, hwVars, IFLAG, hnd, stack, memVars, loc, panicMsg, ghostVars>>

\* interrupts::init, CS::set_reg (with the SS and DS resets)
SetCs ==
    /\ Running /\ pc = "set_cs"
    /\ tables' = [tables EXCEPT ![LoadOrder[2]] = TRUE]
    /\ pc' = "load_tss"
    /\ UNCHANGED <<platform, hwVars, IFLAG, hnd, stack, memVars, loc, panicMsg, ghostVars>>

\* interrupts::init, load_tss
LoadTss ==
    /\ Running /\ pc = "load_tss"
    /\ tables' = [tables EXCEPT ![LoadOrder[3]] = TRUE]
    /\ pc' = "idt_load"
    /\ UNCHANGED <<platform, hwVars, IFLAG, hnd, stack, memVars, loc, panicMsg, ghostVars>>

\* interrupts::init, IDT.load()
IdtLoad ==
    /\ Running /\ pc = "idt_load"
    /\ tables' = [tables EXCEPT ![LoadOrder[4]] = TRUE]
    /\ pc' = "acpi"
    /\ UNCHANGED <<platform, hwVars, IFLAG, hnd, stack, memVars, loc, panicMsg, ghostVars>>

\* setup::init: get_acpi_tables and get_platform_info produce the platform
\* description
AcpiTables ==
    /\ Running /\ pc = "acpi"
    /\ pc' = "old_pic"
    /\ UNCHANGED <<platform, hwVars, cpuVars, memVars, loc, panicMsg, ghostVars>>

\* time::init_and_disable_old_pic
InitAndDisableOldPic ==
    /\ Running /\ pc = "old_pic"
    /\ pic' = "disabled"
    /\ pc' = "init_lapic"
    /\ UNCHANGED <<platform, ioapic, lapicReg, pit, irr, isr, cpuVars, memVars,
                   loc, panicMsg, ghostVars>>

\* mutant: the spurious-vector register is overwritten with the enable bit
SvrOverwrite(reg) == SVR_ENABLE

\* init_lapic: the closure of update_register(0xF0, ..), |reg| reg | 0x100
SvrUpdate(reg) == BitOr(reg, SVR_ENABLE)

\* init_lapic: the registers after the spurious-vector update and the three
\* local-vector-table writes
InitLapicRegs(regs) ==
    LET r0 == LapicWrite(regs, LAPIC_SVR_REG,
                         SvrUpdate(LapicRead(regs, LAPIC_SVR_REG)))
        r1 == LapicWrite(r0, LAPIC_LVT_TIMER_REG, APIC_MASKED)
        r2 == LapicWrite(r1, LAPIC_LVT_LINT0_REG, APIC_MASKED)
    IN  LapicWrite(r2, LAPIC_LVT_LINT1_REG, APIC_MASKED)

\* time::init_lapic
InitLapic ==
    /\ Running /\ pc = "init_lapic"
    /\ IF platform.interrupt_model # "Apic"
       THEN /\ Panic("unknown interrupt model")
            /\ UNCHANGED <<lapicReg, LAPIC>>
       ELSE /\ lapicReg' = InitLapicRegs(lapicReg)
            /\ LAPIC' = TRUE
            /\ pc' = "init_ioapic"
            /\ UNCHANGED <<loc, panicMsg>>
    /\ UNCHANGED <<platform, ioapic, pit, pic, irr, isr, cpuVars, TIMER,
                   SCRATCH_TIMER, APIC_TICKS_IN_10MS, ghostVars>>

\* ------------------------------------------- init_lapic, statement by statement
\* init_lapic: the match on the interrupt model
LapicModel ==
    /\ Running /\ pc = "il_model"
    /\ IF platform.interrupt_model # "Apic"
       THEN Panic("unknown interrupt model")
       ELSE pc' = "il_svr" /\ UNCHANGED <<loc, panicMsg>>
    /\ UNCHANGED <<platform, hwVars, cpuVars, memVars, ghostVars>>

\* init_lapic: lapic.update_register(0xF0, |reg| reg | 0x100), a read of the
\* register into reg and the write of f(reg)
LapicSvr ==
    /\ Running /\ pc = "il_svr"
    /\ LET reg == LapicRead(lapicReg, LAPIC_SVR_REG)
       IN  /\ loc' = [loc EXCEPT !.reg = reg]
           /\ lapicReg' = LapicWrite(lapicReg, LAPIC_SVR_REG, SvrUpdate(reg))
    /\ pc' = "il_lvt_timer"
    /\ UNCHANGED <<platform, ioapic, pit, pic, irr, isr, cpuVars, memVars,
                   panicMsg, ghostVars>>

\* init_lapic: the array the for loop runs over
LvtOrder == <<LAPIC_LVT_TIMER_REG, LAPIC_LVT_LINT0_REG, LAPIC_LVT_LINT1_REG>>

\* positions of the main flow at the three rounds of that loop
LvtPcs == <<"il_lvt_timer", "il_lvt_lint0", "il_lvt_lint1">>

\* init_lapic: one round of the loop, lapic.write_register(reg, APIC_MASKED)
LapicMaskLvt ==
    /\ Running
    /\ \E k \in DOMAIN LvtOrder :
        /\ pc = LvtPcs[k]
        /\ lapicReg' = LapicWrite(lapicReg, LvtOrder[k], APIC_MASKED)
        /\ pc' = IF k < Len(LvtOrder) THEN LvtPcs[k + 1] ELSE "il_publish"
    /\ UNCHANGED <<platform, ioapic, pit, pic, irr, isr, cpuVars, memVars,
                   loc, panicMsg, ghostVars>>

\* init_lapic: LAPIC = Some(lapic), and the return
LapicPublish ==
    /\ Running /\ pc = "il_publish"
    /\ LAPIC' = TRUE
    /\ pc' = "il_done"
    /\ UNCHANGED <<platform, hwVars, cpuVars, TIMER, SCRATCH_TIMER, APIC_TICKS_IN_10MS,
                   loc, panicMsg, ghostVars>>

\* init_lapic has returned to setup::init
LapicDone ==
    /\ Running /\ pc = "il_done"
    /\ UNCHANGED vars

\* what the spurious-vector register can hold when init_lapic is entered:
\* the reset value, bit 8 already set, further flag bits set, nothing set,
\* every bit set
SvrAtEntry == {255, 511, 4351, 0, 15, 2147483647}

\* what the three local-vector-table registers can hold then, in LvtOrder
LvtAtEntry ==
    << {APIC_MASKED, ScratchTimerVector, BitOr(TimerVector, APIC_TIMER_PERIODIC)},
       {1792, APIC_MASKED + 1792},
       {1024, APIC_MASKED + 1024} >>

\* setup::init at the call of init_lapic: the tables loaded, the legacy PIC
\* disabled, interrupts disabled, the Local APIC as the firmware left it
InitLapicEntry ==
    /\ platform \in Platforms
    /\ ioapic = [a \in 1..Len(platform.io_apics) |->
                    IoApicReset(platform.io_apics[a].version)]
    /\ \E svr \in SvrAtEntry, t \in LvtAtEntry[1], l0 \in LvtAtEntry[2],
          l1 \in LvtAtEntry[3] :
        lapicReg = [o \in LapicOffsets |->
                      CASE o = LAPIC_SVR_REG -> svr
                        [] o = LAPIC_LVT_TIMER_REG -> t
                        [] o = LAPIC_LVT_LINT0_REG -> l0
                        [] o = LAPIC_LVT_LINT1_REG -> l1
                        [] OTHER -> 0]
    /\ pit = [command |-> 0, reload |-> 0]
    /\ pic = "disabled"
    /\ irr = {}
    /\ isr = {}
    /\ IFLAG = FALSE
    /\ hnd = NoHandler
    /\ stack = KernelStack
    /\ tables = [gdt |-> TRUE, cs |-> TRUE, tss |-> TRUE, idt |-> TRUE]
    /\ LAPIC = FALSE
    /\ TIMER = 0
    /\ SCRATCH_TIMER = 0
    /\ APIC_TICKS_IN_10MS = 0
    /\ pc = "il_model"
    /\ loc = NoLocals
    /\ panicMsg = "none"
    /\ lastIncSrc = "none"
    /\ irqCount = 0
    /\ udElapsed = 0
    /\ mdIncs = 0
    /\ calIncs = NoIncs
    /\ eoiBy = {}
    /\ visited = <<>>

\* mutant: the first override is taken for the PIT's, whatever its ISA source
AllOverrides(p) == p.interrupt_source_overrides

\* init_ioapic: the overrides with ISA source 0, in table order
PitOverrides(p) ==
    SelectSeq(p.interrupt_source_overrides, LAMBDA ov : ov.isa_source = 0)

\* mutant: the I/O APIC's global interrupt base is left out of the comparison
EntryMatchesNoBase(idx, base, overriden_index) == idx = overriden_index

\* init_ioapic: idx as u32 + base == overriden_index
EntryMatches(idx, base, overriden_index) == idx + base = overriden_index

\* mutant: the PIT's entry is written with its mask bit set
PitEntryWordMasked == BitOr(TimerVector, APIC_MASKED)

\* init_ioapic: the word written to the low register of the PIT's entry
\* (the vector, all flag bits zero)
PitEntryWord == TimerVector

\* init_ioapic: bsp_acpi_id <<= 56 - 32
Destination(local_apic_id) == Shl(local_apic_id, DEST_SHIFT)

\* init_ioapic: the loop over the redirection entries idx .. count-1 of one
\* I/O APIC
RECURSIVE ProgramEntries(_, _, _, _, _, _)
ProgramEntries(regs, base, idx, count, overriden_index, dest) ==
    IF idx >= count THEN regs
    ELSE LET reg == RedirReg(idx)
             next == IF EntryMatches(idx, base, overriden_index)
                     THEN [regs EXCEPT ![reg] = PitEntryWord, ![reg + 1] = dest]
                     ELSE [regs EXCEPT ![reg] = BitOr(@, Shl(1, 16))]
         IN  ProgramEntries(next, base, idx + 1, count, overriden_index, dest)

\* init_ioapic: every (I/O APIC, entry index) the loop takes as the PIT's
MatchingEntries(p, regfiles, overriden_index) ==
    { <<a, idx>> \in (1..Len(p.io_apics)) \X (0..255) :
        /\ idx < MaxRedirCount(regfiles[a][IOAPICVER])
        /\ EntryMatches(idx, p.io_apics[a].global_system_interrupt_base,
                        overriden_index) }

\* init_ioapic: found_reg is the last match in iteration order
LastMatch(ms) ==
    CHOOSE m \in ms : \A o \in ms : o[1] < m[1] \/ (o[1] = m[1] /\ o[2] <= m[2])

\* time::init_ioapic
InitIoapic ==
    /\ Running /\ pc = "init_ioapic"
    /\ LET pits == PitOverrides(platform)
           overriden_index == pits[1].global_system_interrupt
           dest == Destination(platform.boot_processor)
           found == MatchingEntries(platform, ioapic, overriden_index)
       IN  IF platform.interrupt_model # "Apic"
           THEN Panic("unknown interrupt model") /\ UNCHANGED ioapic
           ELSE IF pits = <<>>
           THEN Panic("no PIT") /\ UNCHANGED ioapic
           ELSE IF Len(platform.io_apics) > 0 /\ ~platform.processor_info
           THEN Panic("apic proc info") /\ UNCHANGED ioapic
           ELSE /\ ioapic' =
                     [a \in DOMAIN ioapic |->
                        ProgramEntries(ioapic[a],
                            platform.io_apics[a].global_system_interrupt_base, 0,
                            MaxRedirCount(ioapic[a][IOAPICVER]), overriden_index, dest)]
                /\ IF found = {}
                   THEN Panic("could not find redirected PIT IRQ")
                   ELSE /\ loc' = [loc EXCEPT !.ioapic = LastMatch(found)[1],
                                              !.pitreg = RedirReg(LastMatch(found)[2])]
                        /\ pc' = "time_init"
                        /\ UNCHANGED panicMsg
    /\ UNCHANGED <<platform, lapicReg, pit, pic, irr, isr, cpuVars, memVars, ghostVars>>

\* ------------------------------ init_ioapic, the loop entry by entry, on u8
\* the version registers tried: 1, 24, 120, 121, 128, 129 and 256
\* redirection entries, and 24 entries with bits 24..30 of the register set
VersionsTried ==
    { VersionOf(n) : n \in {1, 24, 120, 121, 128, 129, 256} } \cup
    { VersionOf(24) + Shl(127, 24) }

\* the registers behind an I/O APIC's 8-bit register select: identification,
\* version and arbitration at 0..2, the redirection entries (masked, a legacy
\* vector) from 0x10
IoApicFile(version) ==
    [r \in 0..U8_MAX |->
        IF r = IOAPICVER THEN version
        ELSE IF r >= IOREDTBL_BASE /\ (r - IOREDTBL_BASE) % 2 = 0
             THEN APIC_MASKED + 48 + (r - IOREDTBL_BASE) \div 2
             ELSE 0]

\* setup::init at the call of init_ioapic, on a platform with one I/O APIC
\* whose version register holds one of the values tried
InitRedir ==
    /\ \E v \in VersionsTried :
        /\ platform =
            [interrupt_model |-> "Apic",
             interrupt_source_overrides |->
                <<LegacyOverride, [isa_source |-> 0, global_system_interrupt |-> 0]>>,
             io_apics |-> <<[global_system_interrupt_base |-> 0, version |-> v]>>,
             processor_info |-> TRUE, boot_processor |-> BspId]
        /\ ioapic = [a \in {1} |-> IoApicFile(v)]
    /\ lapicReg = InitLapicRegs([o \in LapicOffsets |-> IF o = LAPIC_SVR_REG THEN 255 ELSE 0])
    /\ pit = [command |-> 0, reload |-> 0]
    /\ pic = "disabled"
    /\ irr = {}
    /\ isr = {}
    /\ IFLAG = FALSE
    /\ hnd = NoHandler
    /\ stack = KernelStack
    /\ tables = [gdt |-> TRUE, cs |-> TRUE, tss |-> TRUE, idt |-> TRUE]
    /\ LAPIC = TRUE
    /\ TIMER = 0
    /\ SCRATCH_TIMER = 0
    /\ APIC_TICKS_IN_10MS = 0
    /\ pc = "io_ver"
    /\ loc = NoLocals
    /\ panicMsg = "none"
    /\ lastIncSrc = "none"
    /\ irqCount = 0
    /\ udElapsed = 0
    /\ mdIncs = 0
    /\ calIncs = NoIncs
    /\ eoiBy = {}
    /\ visited = <<>>

\* init_ioapic: let ioapicver = read_register(IOAPICVER) and
\* let max_redir_count = (ioapicver >> 16) as u8 + 1.  The sum is on u8:
\* when it does not fit, a build with overflow checks panics and one
\* without wraps.
RedirVersion ==
    /\ Running /\ pc = "io_ver"
    /\ LET ioapicver == ioapic[1][IOAPICVER]
           count == MaxRedirCount(ioapicver)
       IN  \/ /\ Fits8(count)
              /\ loc' = [loc EXCEPT !.ioapicver = ioapicver, !.max_redir_count = count,
                                    !.idx = 0]
              /\ pc' = "io_entry"
              /\ UNCHANGED panicMsg
           \/ /\ ~Fits8(count)
              /\ loc' = [loc EXCEPT !.ioapicver = ioapicver,
                                    !.max_redir_count = Wrap8(count), !.idx = 0]
              /\ pc' = "io_entry"
              /\ UNCHANGED panicMsg
           \/ /\ ~Fits8(count)
              /\ Panic("attempt to add with overflow")
    /\ UNCHANGED <<platform, hwVars, cpuVars, memVars, ghostVars>>

\* init_ioapic: one round of for idx in 0..max_redir_count, with
\* let reg = 0x10 + idx * 2 on u8 (panic or wrap when it does not fit), and
\* after the last round found_reg.expect(..)
RedirEntry ==
    /\ Running /\ pc = "io_entry"
    /\ LET base == platform.io_apics[1].global_system_interrupt_base
           overriden_index == PitOverrides(platform)[1].global_system_interrupt
           dest == Destination(platform.boot_processor)
           reg == Wrap8(RedirReg(loc.idx))
           regs == ioapic[1]
       IN  IF loc.idx >= loc.max_redir_count
           THEN /\ IF loc.pitreg = 0
                   THEN Panic("could not find redirected PIT IRQ")
                   ELSE pc' = "io_done" /\ UNCHANGED <<loc, panicMsg>>
                /\ UNCHANGED <<ioapic, visited>>
           ELSE \/ /\ ~Fits8(RedirReg(loc.idx))
                   /\ Panic("attempt to multiply or add with overflow")
                   /\ UNCHANGED <<ioapic, visited>>
                \/ /\ ioapic' =
                        [ioapic EXCEPT ![1] =
                            IF EntryMatches(loc.idx, base, overriden_index)
                            THEN [regs EXCEPT ![reg] = PitEntryWord,
                                              ![Wrap8(reg + 1)] = dest]
                            ELSE [regs EXCEPT ![reg] = BitOr(@, Shl(1, 16))]]
                   /\ loc' = [loc EXCEPT
                                !.idx = @ + 1,
                                !.ioapic = IF EntryMatches(loc.idx, base, overriden_index)
                                           THEN 1 ELSE @,
                                !.pitreg = IF EntryMatches(loc.idx, base, overriden_index)
                                           THEN reg ELSE @]
                   /\ visited' = Append(visited, reg)
                   /\ UNCHANGED <<pc, panicMsg>>
    /\ UNCHANGED <<platform, lapicReg, pit, pic, irr, isr, cpuVars, memVars,
                   lastIncSrc, irqCount, udElapsed, mdIncs, calIncs, eoiBy>>

\* init_ioapic has returned (IoApic, reg) to setup::init
RedirDone ==
    /\ Running /\ pc = "io_done"
    /\ UNCHANGED vars

\* ------------------------------------------------- time::init, calibration
\* time::init up to the call of calibrate_apic_timer ("im currently here1")
TimeInit ==
    /\ Running /\ pc = "time_init"
    /\ IFLAG' = WithoutInterrupts(IFLAG)
    /\ pc' = "cal_pit"
    /\ UNCHANGED <<platform, hwVars, hnd, stack, tables, memVars, loc, panicMsg, ghostVars>>

\* calibrate_apic_timer: the command byte and the lo/hi bytes of the divider
\* written to the PIT
CalProgramPit ==
    /\ Running /\ pc = "cal_pit"
    /\ pit' = [command |-> PIT_COMMAND,
               reload |-> (PIT_DIVIDER % 256) + Shl(Shr(PIT_DIVIDER, 8) % 256, 8)]
    /\ pc' = "cal_prepare"
    /\ UNCHANGED <<platform, ioapic, lapicReg, pic, irr, isr, cpuVars, memVars,
                   loc, panicMsg, ghostVars>>

\* mutant: calibration runs the LAPIC timer on the periodic-timer vector
CalibrationLvtOnTimer == TimerVector

\* mutant: the scratch vector is written with the mask bit set
CalibrationLvtMasked == BitOr(ScratchTimerVector, APIC_MASKED)

\* calibrate_apic_timer: the word written to the LVT timer register before
\* the measurement
CalibrationLvt == ScratchTimerVector

\* calibrate_apic_timer: "prepare LAPIC timer", the LVT and divide writes
CalPrepareLapic ==
    /\ Running /\ pc = "cal_prepare" /\ LAPIC
    /\ lapicReg' = LapicWrite(LapicWrite(lapicReg, LAPIC_LVT_TIMER_REG, CalibrationLvt),
                              LAPIC_TIMER_DIV_REG, TIMER_DIVIDE)
    /\ pc' = "cal_enable"
    /\ UNCHANGED <<platform, ioapic, pit, pic, irr, isr, cpuVars, memVars,
                   loc, panicMsg, ghostVars>>

\* calibrate_apic_timer: interrupts::enable()
CalEnable ==
    /\ Running /\ pc = "cal_enable"
    /\ IFLAG' = TRUE
    /\ pc' = "cal_saved"
    /\ UNCHANGED <<platform, hwVars, hnd, stack, tables, memVars, loc, panicMsg, ghostVars>>

\* get_irq_cnt: a volatile read of TIMER
get_irq_cnt == TIMER

\* calibrate_apic_timer: let saved_pit_cnt = get_irq_cnt()
CalSave ==
    /\ Running /\ pc = "cal_saved"
    /\ loc' = [loc EXCEPT !.saved_pit_cnt = get_irq_cnt]
    /\ pc' = "cal_loop1"
    /\ calIncs' = [calIncs EXCEPT !.saved = 0]
    /\ UNCHANGED <<platform, hwVars, cpuVars, memVars, panicMsg,
                   lastIncSrc, irqCount, udElapsed, mdIncs, eoiBy, visited>>

\* mutant: the wait loops' test passes without any advance
AdvancedAtOnce(cnt, base) == WrapSub(cnt, base) >= 0

\* the wait loops' test: the counter is at least one step past base
Advanced(cnt, base) == WrapSub(cnt, base) >= 1

\* calibrate_apic_timer: one round of the first wait loop
CalLoop1 ==
    /\ Running /\ pc = "cal_loop1"
    /\ loc' = [loc EXCEPT !.curr_pit_cnt = get_irq_cnt]
    /\ pc' = IF Advanced(get_irq_cnt, loc.saved_pit_cnt) THEN "cal_arm" ELSE "cal_loop1"
    /\ calIncs' = [calIncs EXCEPT !.curr = 0]
    /\ UNCHANGED <<platform, hwVars, cpuVars, memVars, panicMsg,
                   lastIncSrc, irqCount, udElapsed, mdIncs, eoiBy, visited>>

\* calibrate_apic_timer: "start LAPIC timer", initial count u32::MAX
CalArm ==
    /\ Running /\ pc = "cal_arm"
    /\ lapicReg' = LapicWrite(lapicReg, LAPIC_TIMER_INITCNT_REG, U32_MAX)
    /\ pc' = "cal_loop2"
    /\ calIncs' = [calIncs EXCEPT !.arm = 0]
    /\ UNCHANGED <<platform, ioapic, pit, pic, irr, isr, cpuVars, memVars,
                   loc, panicMsg, lastIncSrc, irqCount, udElapsed, mdIncs, eoiBy, visited>>

\* calibrate_apic_timer: one round of the second wait loop
CalLoop2 ==
    /\ Running /\ pc = "cal_loop2"
    /\ pc' = IF Advanced(get_irq_cnt, loc.curr_pit_cnt) THEN "cal_stop" ELSE "cal_loop2"
    /\ UNCHANGED <<platform, hwVars, cpuVars, memVars, loc, panicMsg, ghostVars>>

\* calibrate_apic_timer: "Stop the APIC timer"
CalStop ==
    /\ Running /\ pc = "cal_stop"
    /\ lapicReg' = LapicWrite(lapicReg, LAPIC_LVT_TIMER_REG, APIC_MASKED)
    /\ pc' = "cal_read"
    /\ UNCHANGED <<platform, ioapic, pit, pic, irr, isr, cpuVars, memVars,
                   loc, panicMsg, ghostVars>>

\* mutant: the remaining count is taken for the elapsed count
MeasuredTicksRemaining(current_count) == current_count

\* calibrate_apic_timer: u32::MAX - current count
MeasuredTicks(current_count) == U32_MAX - current_count

\* calibrate_apic_timer: let apic_ticks_in_10ms = ...
CalRead ==
    /\ Running /\ pc = "cal_read"
    /\ loc' = [loc EXCEPT
                 !.remaining_count = LapicRead(lapicReg, LAPIC_TIMER_CURRCNT_REG),
                 !.apic_ticks_in_10ms =
                    MeasuredTicks(LapicRead(lapicReg, LAPIC_TIMER_CURRCNT_REG))]
    /\ pc' = "cal_disable"
    /\ calIncs' = NoIncs
    /\ UNCHANGED <<platform, hwVars, cpuVars, memVars, panicMsg,
                   lastIncSrc, irqCount, udElapsed, mdIncs, eoiBy, visited>>

\* mutant: the disable is left out, the interrupt flag stays set
AfterDisableStillSet == TRUE

\* interrupts::disable(): the interrupt flag after the cli
AfterDisable == FALSE

\* calibrate_apic_timer: interrupts::disable()
CalDisable ==
    /\ Running /\ pc = "cal_disable"
    /\ IFLAG' = AfterDisable
    /\ pc' = "cal_store"
    /\ UNCHANGED <<platform, hwVars, hnd, stack, tables, memVars, loc, panicMsg, ghostVars>>

\* calibrate_apic_timer: the log line and APIC_TICKS_IN_10MS.store
CalStore ==
    /\ Running /\ pc = "cal_store"
    /\ APIC_TICKS_IN_10MS' = loc.apic_ticks_in_10ms
    /\ IFLAG' = WithoutInterrupts(IFLAG)
    /\ pc' = "cal_maskpit"
    /\ UNCHANGED <<platform, hwVars, hnd, stack, tables, LAPIC, TIMER, SCRATCH_TIMER,
                   loc, panicMsg, ghostVars>>

\* calibrate_apic_timer: "mask the PIT I/O APIC entry"
CalMaskPit ==
    /\ Running /\ pc = "cal_maskpit"
    /\ ioapic' = [ioapic EXCEPT ![loc.ioapic][loc.pitreg] = APIC_MASKED]
    /\ pc' = "cal_lvt32"
    /\ UNCHANGED <<platform, lapicReg, pit, pic, irr, isr, cpuVars, memVars,
                   loc, panicMsg, ghostVars>>

\* calibrate_apic_timer: the LVT word of the periodic timer
PeriodicLvt == BitOr(TimerVector, APIC_TIMER_PERIODIC)

\* calibrate_apic_timer: LVT timer := Timer | periodic
CalLvtPeriodic ==
    /\ Running /\ pc = "cal_lvt32"
    /\ lapicReg' = LapicWrite(lapicReg, LAPIC_LVT_TIMER_REG, PeriodicLvt)
    /\ pc' = "cal_initcnt"
    /\ UNCHANGED <<platform, ioapic, pit, pic, irr, isr, cpuVars, memVars,
                   loc, panicMsg, ghostVars>>

\* calibrate_apic_timer: the reload value written for periodic mode
ReloadCount(apic_ticks_in_10ms) == apic_ticks_in_10ms

\* calibrate_apic_timer: initial count := apic_ticks_in_10ms
CalInitCount ==
    /\ Running /\ pc = "cal_initcnt"
    /\ lapicReg' = LapicWrite(lapicReg, LAPIC_TIMER_INITCNT_REG,
                              ReloadCount(loc.apic_ticks_in_10ms))
    /\ pc' = "cal_div"
    /\ UNCHANGED <<platform, ioapic, pit, pic, irr, isr, cpuVars, memVars,
                   loc, panicMsg, ghostVars>>

\* calibrate_apic_timer: the divide value again, then the return to
\* time::init and its log line ("im currently here2")
CalDivide ==
    /\ Running /\ pc = "cal_div"
    /\ lapicReg' = LapicWrite(lapicReg, LAPIC_TIMER_DIV_REG, TIMER_DIVIDE)
    /\ IFLAG' = WithoutInterrupts(IFLAG)
    /\ loc' = NoLocals
    /\ pc' = "final_enable"
    /\ UNCHANGED <<platform, ioapic, pit, pic, irr, isr, hnd, stack, tables, memVars,
                   panicMsg, ghostVars>>

\* setup::init: x86_64::instructions::interrupts::enable()
FinalEnable ==
    /\ Running /\ pc = "final_enable"
    /\ IFLAG' = TRUE
    /\ pc' = "draw_init"
    /\ UNCHANGED <<platform, hwVars, hnd, stack, tables, memVars, loc, panicMsg, ghostVars>>

\* setup::init: the frame buffer and console set-up, then kernel_start's
\* remaining output
DrawInit ==
    /\ Running /\ pc = "draw_init"
    /\ IFLAG' = WithoutInterrupts(IFLAG)
    /\ pc' = "kernel_loop"
    /\ UNCHANGED <<platform, hwVars, hnd, stack, tables, memVars, loc, panicMsg, ghostVars>>

\* kernel_start: loop {}
KernelLoop ==
    /\ Running /\ pc = "kernel_loop"
    /\ UNCHANGED vars

\* utils::hlt_loop after a panic in the main flow
HltLoop ==
    /\ Running /\ pc = "hlt_loop"
    /\ UNCHANGED vars

\* ---------------------------------------------------------------- hardware
\* the global interrupt the PIT's output (ISA IRQ 0) is wired to
PitGsi(p) ==
    IF PitOverrides(p) = <<>> THEN 0 ELSE PitOverrides(p)[1].global_system_interrupt

\* the redirection entries (I/O APIC, low register) that pin belongs to
PitPins ==
    { <<a, RedirReg(idx)>> : <<a, idx>> \in
        { m \in (1..Len(platform.io_apics)) \X (0..(MaxRedir + 1)) :
            /\ m[2] < MaxRedirCount(ioapic[m[1]][IOAPICVER])
            /\ m[2] + platform.io_apics[m[1]].global_system_interrupt_base
                 = PitGsi(platform) } }

Pending(vec) == \E p \in irr : p.vec = vec

\* The PIT is a free-running generator: the edge a wait loop of calibration
\* is still waiting for always comes in the end.
PitAwaited ==
    /\ hnd.name \notin {"timer_rd", "timer_wr"}
    /\ \/ pc = "cal_loop1" /\ TIMER = loc.saved_pit_cnt
       \/ pc = "cal_loop2" /\ TIMER = loc.curr_pit_cnt

\* The PIT raises an edge on IRQ 0: the I/O APIC forwards it, with the
\* entry's vector, unless the entry is masked (a masked edge is lost).
PitEdge ==
    /\ irqCount < MaxIrq
    /\ \E pin \in PitPins :
        LET word == ioapic[pin[1]][pin[2]]
        IN  /\ ~IsMasked(word)
            /\ ~Pending(VectorOf(word))
            /\ irr' = irr \cup {[vec |-> VectorOf(word), src |-> "PIT"]}
    /\ irqCount' = irqCount + 1
    /\ UNCHANGED <<platform, ioapic, lapicReg, pit, pic, isr, cpuVars, memVars,
                   mainVars, lastIncSrc, udElapsed, mdIncs, calIncs, eoiBy, visited>>

\* A responsive PIT: the edge a wait loop is waiting for comes even when
\* MaxIrq interrupts have been raised already.
PitEdgeAwaited ==
    /\ irqCount = MaxIrq /\ PitAwaited
    /\ \E pin \in PitPins :
        LET word == ioapic[pin[1]][pin[2]]
        IN  /\ ~IsMasked(word)
            /\ ~Pending(VectorOf(word))
            /\ irr' = irr \cup {[vec |-> VectorOf(word), src |-> "PIT"]}
    /\ UNCHANGED <<platform, ioapic, lapicReg, pit, pic, isr, cpuVars, memVars,
                   mainVars, ghostVars>>

\* The LAPIC timer counts down by one.  Reaching zero it raises its LVT
\* vector unless the LVT entry is masked, and reloads in periodic mode.
LapicTick ==
    LET cur == lapicReg[LAPIC_TIMER_CURRCNT_REG]
        lvt == lapicReg[LAPIC_LVT_TIMER_REG]
        expires == cur = 1
        fires == expires /\ ~IsMasked(lvt) /\ ~Pending(VectorOf(lvt))
    IN  /\ cur > 0
        /\ (expires /\ ~IsMasked(lvt)) => irqCount < MaxIrq
        /\ lapicReg' = [lapicReg EXCEPT ![LAPIC_TIMER_CURRCNT_REG] =
                            IF expires /\ IsPeriodic(lvt)
                            THEN lapicReg[LAPIC_TIMER_INITCNT_REG]
                            ELSE cur - 1]
        /\ irr' = IF fires THEN irr \cup {[vec |-> VectorOf(lvt), src |-> "LAPIC"]}
                  ELSE irr
        /\ irqCount' = IF fires THEN irqCount + 1 ELSE irqCount
        /\ udElapsed' = IF pc = "ud_loop" THEN Bump(udElapsed) ELSE udElapsed
        /\ UNCHANGED <<platform, ioapic, pit, pic, isr, cpuVars, memVars,
                       mainVars, lastIncSrc, mdIncs, calIncs, eoiBy, visited>>

\* mdelay is halted in its hlt and nothing is on its way to wake it
MdelayAwaits == pc = "md_halted" /\ Running /\ irr = {}

\* A periodic timer that keeps firing: the expiry a halted mdelay is waiting
\* for comes even when MaxIrq interrupts have been raised already.
LapicTickAwaited ==
    LET lvt == lapicReg[LAPIC_LVT_TIMER_REG]
    IN  /\ irqCount = MaxIrq /\ MdelayAwaits
        /\ lapicReg[LAPIC_TIMER_CURRCNT_REG] = 1
        /\ ~IsMasked(lvt) /\ IsPeriodic(lvt)
        /\ lapicReg' = [lapicReg EXCEPT ![LAPIC_TIMER_CURRCNT_REG] =
                            lapicReg[LAPIC_TIMER_INITCNT_REG]]
        /\ irr' = irr \cup {[vec |-> VectorOf(lvt), src |-> "LAPIC"]}
        /\ UNCHANGED <<platform, ioapic, pit, pic, isr, cpuVars, memVars,
                       mainVars, ghostVars>>

\* first step of each handler
EntryStep(handler) ==
    CASE handler = "timer_interrupt_handler" -> "timer_rd"
      [] handler = "scratch_timer_interrupt_handler" -> "scratch_inc"
      [] handler = "breakpoint_handler" -> "bp"
      [] handler = "page_fault_handler" -> "pf"
      [] handler = "double_fault_handler" -> "df"

\* The processor enters the IDT entry of vector vec: it switches to the
\* entry's stack and clears the interrupt flag (interrupt gate).
EnterHandler(vec, src) ==
    /\ hnd' = [name |-> EntryStep(IDT[vec].handler), vec |-> vec, src |-> src,
               time |-> 0, savedIF |-> IFLAG, savedStack |-> stack, log |-> <<>>]
    /\ stack' = EntryStack(IDT[vec], stack)
    /\ IFLAG' = FALSE

\* The Local APIC delivers its highest pending vector when the interrupt
\* flag is set and no vector of the same or a higher priority class is in
\* service; a halted processor resumes after the hlt.
Deliver ==
    /\ Running /\ IFLAG /\ tables.idt
    /\ \E p \in irr :
        /\ \A q \in irr : q.vec <= p.vec
        /\ \A v \in isr : v \div 16 < p.vec \div 16
        /\ p.vec \in DOMAIN IDT
        /\ EnterHandler(p.vec, p.src)
        /\ irr' = irr \ {p}
        /\ isr' = isr \cup {p.vec}
    /\ pc' = IF pc = "md_halted" THEN "md_check" ELSE pc
    /\ UNCHANGED <<platform, ioapic, lapicReg, pit, pic, tables, memVars,
                   loc, panicMsg, ghostVars>>

\* iretq: back to the interrupted context
Iret ==
    /\ hnd' = NoHandler
    /\ IFLAG' = hnd.savedIF
    /\ stack' = hnd.savedStack

\* mutant: the handler returns without the end-of-interrupt write
NoEndOfInterrupt ==
    /\ LAPIC
    /\ UNCHANGED <<lapicReg, isr, eoiBy>>

\* Lapic::end_of_interrupt: the write to register 0xB0 retires the highest
\* vector in service
EndOfInterrupt ==
    /\ LAPIC
    /\ lapicReg' = LapicWrite(lapicReg, LAPIC_EOI_REG, 0)
    /\ isr' = isr \ {v \in isr : \A w \in isr : w <= v}
    /\ eoiBy' = eoiBy \cup {hnd.vec}

\* ---------------------------------------------------------------- handlers
\* timer_interrupt_handler: let time = timer.read_volatile()
TimerRead ==
    /\ hnd.name = "timer_rd"
    /\ hnd' = [hnd EXCEPT !.time = TIMER, !.name = "timer_wr"]
    /\ UNCHANGED <<platform, hwVars, IFLAG, stack, tables, memVars, mainVars, ghostVars>>

\* positions of the main flow between the interrupt enable and the
\* interrupt disable of calibrate_apic_timer
CalWindowPcs ==
    {"cal_saved", "cal_loop1", "cal_arm", "cal_loop2", "cal_stop", "cal_read",
     "cal_disable"}

MdelayPcs == {"md_outer", "md_check", "md_hlt", "md_halted", "md_ret"}

\* timer_interrupt_handler: timer.write_volatile(time + Wrapping(1))
TimerWrite ==
    /\ hnd.name = "timer_wr"
    /\ TIMER' = WrapAdd(hnd.time, 1)
    /\ hnd' = [hnd EXCEPT !.name = "timer_eoi"]
    /\ lastIncSrc' = hnd.src
    /\ mdIncs' = IF pc \in MdelayPcs THEN Bump(mdIncs) ELSE mdIncs
    /\ calIncs' = IF pc \in CalWindowPcs \ {"cal_disable"}
                  THEN [saved |-> Bump(calIncs.saved), curr |-> Bump(calIncs.curr),
                        arm |-> Bump(calIncs.arm)]
                  ELSE calIncs
    /\ UNCHANGED <<platform, hwVars, IFLAG, stack, tables, LAPIC, SCRATCH_TIMER,
                   APIC_TICKS_IN_10MS, mainVars, irqCount, udElapsed, eoiBy, visited>>

\* timer_interrupt_handler: lapic().end_of_interrupt() and the return
TimerEoi ==
    /\ hnd.name = "timer_eoi"
    /\ EndOfInterrupt
    /\ Iret
    /\ UNCHANGED <<platform, ioapic, pit, pic, irr, tables, memVars, mainVars,
                   lastIncSrc, irqCount, udElapsed, mdIncs, calIncs, visited>>

\* mutant: the scratch handler counts into TIMER as well
ScratchEffectOnTimer(timer, scratch) ==
    [timer |-> WrapAdd(timer, 1), scratch |-> WrapAdd(scratch, 1)]

\* scratch_timer_interrupt_handler: the statics after
\* SCRATCH_TIMER = SCRATCH_TIMER.wrapping_add(1)
ScratchEffect(timer, scratch) == [timer |-> timer, scratch |-> WrapAdd(scratch, 1)]

\* scratch_timer_interrupt_handler: the increment
ScratchInc ==
    /\ hnd.name = "scratch_inc"
    /\ TIMER' = ScratchEffect(TIMER, SCRATCH_TIMER).timer
    /\ SCRATCH_TIMER' = ScratchEffect(TIMER, SCRATCH_TIMER).scratch
    /\ hnd' = [hnd EXCEPT !.name = "scratch_eoi"]
    /\ UNCHANGED <<platform, hwVars, IFLAG, stack, tables, LAPIC,
                   APIC_TICKS_IN_10MS, mainVars, ghostVars>>

\* scratch_timer_interrupt_handler: lapic().end_of_interrupt() and the return
ScratchEoi ==
    /\ hnd.name = "scratch_eoi"
    /\ EndOfInterrupt
    /\ Iret
    /\ UNCHANGED <<platform, ioapic, pit, pic, irr, tables, memVars, mainVars,
                   lastIncSrc, irqCount, udElapsed, mdIncs, calIncs, visited>>

\* ------------------------------------------------------------- exceptions
\* Positions of the main flow at which an exception is raised: one with
\* interrupts disabled during bring-up, one inside the calibration window,
\* one in the running kernel and one inside a delay.
FaultPoints == {"acpi", "cal_loop2", "kernel_loop", "md_check"}

\* The main flow raises a breakpoint, a page fault or a double fault once
\* the interrupt table is loaded.
RaiseException ==
    /\ Running /\ tables.idt /\ pc \in FaultPoints
    /\ \E vec \in {BreakpointVector, PageFaultVector, DoubleFaultVector} :
        EnterHandler(vec, "cpu")
    /\ UNCHANGED <<platform, hwVars, tables, memVars, mainVars, ghostVars>>

\* breakpoint_handler: the line it writes to the serial log
BreakpointLog == <<"EXCEPTION: BREAKPOINT", "stack_frame">>

\* breakpoint_handler: sprintln! of the frame
BreakpointHandler ==
    /\ hnd.name = "bp"
    /\ hnd' = [hnd EXCEPT !.name = "bp_ret", !.log = BreakpointLog]
    /\ IFLAG' = WithoutInterrupts(IFLAG)
    /\ UNCHANGED <<platform, hwVars, stack, tables, memVars, mainVars, ghostVars>>

\* breakpoint_handler: the end of the function, iretq to the interrupted code
BreakpointReturn ==
    /\ hnd.name = "bp_ret"
    /\ Iret
    /\ UNCHANGED <<platform, hwVars, tables, memVars, mainVars, ghostVars>>

\* page_fault_handler: the four lines it writes to the serial log
PageFaultLog ==
    <<"EXCEPTION: PAGE FAULT", "Accessed Address", "Error Code", "stack_frame">>

\* mutant: the page-fault handler ends like the breakpoint handler, with a
\* return
PageFaultEndReturns == "bp_ret"

\* page_fault_handler: its last statement, hlt_loop()
PageFaultEnd == "pf_halt"

\* page_fault_handler: logs, then hlt_loop()
PageFaultHandler ==
    /\ hnd.name = "pf"
    /\ hnd' = [hnd EXCEPT !.name = PageFaultEnd, !.log = PageFaultLog]
    /\ IFLAG' = WithoutInterrupts(IFLAG)
    /\ UNCHANGED <<platform, hwVars, stack, tables, memVars, mainVars, ghostVars>>

\* double_fault_handler: the panic message panic_handler logs
DoubleFaultLog == <<"EXCEPTION: DOUBLE FAULT", "stack_frame">>

\* double_fault_handler: panic!, so panic_handler logs and enters hlt_loop
DoubleFaultHandler ==
    /\ hnd.name = "df"
    /\ hnd' = [hnd EXCEPT !.name = "df_halt", !.log = DoubleFaultLog]
    /\ panicMsg' = "EXCEPTION: DOUBLE FAULT"
    /\ IFLAG' = WithoutInterrupts(IFLAG)
    /\ UNCHANGED <<platform, hwVars, stack, tables, memVars, pc, loc, ghostVars>>

\* utils::hlt_loop inside a fault handler: the interrupt flag is clear, the
\* processor never leaves the hlt
HandlerHalted ==
    /\ hnd.name \in {"pf_halt", "df_halt"}
    /\ UNCHANGED vars


\* ------------------------------------------------------- delay primitives
\* durations, in microseconds, handed to delay
Durations ==
    {400, 999, 1000, 1500, 10000, 25500, (USIZE_MAX + 1) * MICROS_PER_MILLI}

\* Duration::as_micros of a duration given in microseconds
AsMicros(dur) == dur
\* mutant: the millisecond count is rounded up
AsMillisRoundedUp(dur) == (dur + MICROS_PER_MILLI - 1) \div MICROS_PER_MILLI

\* Duration::as_millis: whole milliseconds, the remainder dropped
AsMillis(dur) == dur \div MICROS_PER_MILLI
\* u128 -> usize try_into succeeds
FitsUsize(n) == n <= USIZE_MAX

\* time::delay, called by the running kernel
Delay ==
    /\ Running /\ pc = "idle"
    /\ \E dur \in Durations :
        IF AsMicros(dur) < MICROS_PER_MILLI
        THEN /\ loc' = [NoLocals EXCEPT !.dur = dur]
             /\ pc' = "ud_load"
             /\ UNCHANGED panicMsg
        ELSE IF FitsUsize(AsMillis(dur))
        THEN /\ loc' = [NoLocals EXCEPT !.dur = dur, !.millis = AsMillis(dur)]
             /\ pc' = "md_outer"
             /\ UNCHANGED panicMsg
        ELSE /\ loc' = [NoLocals EXCEPT !.dur = dur]
             /\ pc' = "hlt_loop"
             /\ panicMsg' = "delay duration is too long"
    /\ mdIncs' = 0
    /\ udElapsed' = 0
    /\ UNCHANGED <<platform, hwVars, cpuVars, memVars, lastIncSrc, irqCount,
                   calIncs, eoiBy, visited>>

\* udelay: ticks_per_10ms * micros / 10000
DelayTicks(ticks_per_10ms, micros) == (ticks_per_10ms * micros) \div UDELAY_DIVISOR

\* udelay: the load of the calibration constant and the threshold
UdelayLoad ==
    /\ Running /\ pc = "ud_load"
    /\ loc' = [loc EXCEPT !.delay_ticks = DelayTicks(APIC_TICKS_IN_10MS, AsMicros(loc.dur))]
    /\ pc' = "ud_first"
    /\ UNCHANGED <<platform, hwVars, cpuVars, memVars, panicMsg, ghostVars>>

\* udelay: let current_tick = get_tick()
UdelayFirstRead ==
    /\ Running /\ pc = "ud_first" /\ LAPIC
    /\ loc' = [loc EXCEPT !.current_tick = LapicRead(lapicReg, LAPIC_TIMER_CURRCNT_REG)]
    /\ pc' = "ud_loop"
    /\ udElapsed' = 0
    /\ UNCHANGED <<platform, hwVars, cpuVars, memVars, panicMsg,
                   lastIncSrc, irqCount, mdIncs, calIncs, eoiBy, visited>>

\* udelay: one round of while current_tick - get_tick() < delay_ticks {}.
\* The subtraction is on usize: when the register reads above current_tick
\* it overflows, which panics in a build with overflow checks and wraps in
\* one without.
UdelayLoop ==
    /\ Running /\ pc = "ud_loop" /\ LAPIC
    /\ LET tick == LapicRead(lapicReg, LAPIC_TIMER_CURRCNT_REG)
       IN  IF loc.current_tick < tick
           THEN \/ /\ pc' = "hlt_loop"
                   /\ panicMsg' = "attempt to subtract with overflow"
                \/ /\ pc' = IF WrapSub(loc.current_tick, tick) < loc.delay_ticks
                            THEN "ud_loop" ELSE "ud_ret"
                   /\ UNCHANGED panicMsg
           ELSE /\ pc' = IF loc.current_tick - tick < loc.delay_ticks
                         THEN "ud_loop" ELSE "ud_ret"
                /\ UNCHANGED panicMsg
    /\ UNCHANGED <<platform, hwVars, cpuVars, memVars, loc, ghostVars>>

\* udelay returns (and delay with it)
UdelayReturn ==
    /\ Running /\ pc = "ud_ret"
    /\ pc' = "idle"
    /\ loc' = NoLocals
    /\ UNCHANGED <<platform, hwVars, cpuVars, memVars, panicMsg, ghostVars>>

\* mdelay: the test of while millis >= 10 and let curr_irq_cnt = get_irq_cnt()
MdelayOuter ==
    /\ Running /\ pc = "md_outer"
    /\ IF loc.millis >= MDELAY_STEP
       THEN /\ loc' = [loc EXCEPT !.curr_irq_cnt = get_irq_cnt]
            /\ pc' = "md_check"
       ELSE /\ pc' = "md_ret"
            /\ loc' = loc
    /\ UNCHANGED <<platform, hwVars, cpuVars, memVars, panicMsg, ghostVars>>

\* mdelay: the test of while get_irq_cnt() - curr_irq_cnt < Wrapping(1), and
\* millis -= 10 once it fails
MdelayCheck ==
    /\ Running /\ pc = "md_check"
    /\ IF Advanced(get_irq_cnt, loc.curr_irq_cnt)
       THEN /\ loc' = [loc EXCEPT !.millis = @ - MDELAY_STEP]
            /\ pc' = "md_outer"
       ELSE /\ pc' = "md_hlt"
            /\ loc' = loc
    /\ UNCHANGED <<platform, hwVars, cpuVars, memVars, panicMsg, ghostVars>>

\* mdelay: hlt(), the processor stops until an interrupt is delivered
MdelayHlt ==
    /\ Running /\ pc = "md_hlt"
    /\ pc' = "md_halted"
    /\ UNCHANGED <<platform, hwVars, cpuVars, memVars, loc, panicMsg, ghostVars>>

\* mdelay returns (and delay with it)
MdelayReturn ==
    /\ Running /\ pc = "md_ret"
    /\ pc' = "idle"
    /\ loc' = NoLocals
    /\ UNCHANGED <<platform, hwVars, cpuVars, memVars, panicMsg, ghostVars>>

\* ---------------------------------------------------- the running kernel
\* calibration constants of the running kernel
SteadyTicks == {0, U32_MAX}

SteadyPlatform ==
    [interrupt_model |-> "Apic",
     interrupt_source_overrides |->
        <<LegacyOverride, [isa_source |-> 0, global_system_interrupt |-> 0]>>,
     io_apics |-> <<[global_system_interrupt_base |-> 0, version |-> VersionOf(MaxRedir)]>>,
     processor_info |-> TRUE, boot_processor |-> BspId]

\* The kernel after setup::init has returned, some time later: the tables
\* loaded, the PIT's entry masked, the LAPIC timer periodic on the timer
\* vector with the calibration constant as reload value, the tick counter
\* one step below its maximum (so that the next ticks reach the maximum and
\* wrap), and a caller of delay that runs with interrupts enabled or
\* disabled.
InitSteady ==
    /\ platform = SteadyPlatform
    /\ ioapic = [a \in {1} |->
                    [ProgramEntries(IoApicReset(VersionOf(MaxRedir)), 0, 0, MaxRedir, 0,
                                    Destination(BspId))
                        EXCEPT ![RedirReg(0)] = APIC_MASKED]]
    /\ APIC_TICKS_IN_10MS \in SteadyTicks
    /\ lapicReg =
        LapicWrite(LapicWrite(LapicWrite(
            InitLapicRegs([o \in LapicOffsets |-> IF o = LAPIC_SVR_REG THEN 255 ELSE 0]),
            LAPIC_LVT_TIMER_REG, PeriodicLvt),
            LAPIC_TIMER_INITCNT_REG, ReloadCount(APIC_TICKS_IN_10MS)),
            LAPIC_TIMER_DIV_REG, TIMER_DIVIDE)
    /\ pit = [command |-> PIT_COMMAND,
              reload |-> (PIT_DIVIDER % 256) + Shl(Shr(PIT_DIVIDER, 8) % 256, 8)]
    /\ pic = "disabled"
    /\ irr = {}
    /\ isr = {}
    /\ IFLAG \in BOOLEAN
    /\ hnd = NoHandler
    /\ stack = KernelStack
    /\ tables = [gdt |-> TRUE, cs |-> TRUE, tss |-> TRUE, idt |-> TRUE]
    /\ LAPIC = TRUE
    /\ TIMER = USIZE_MAX - 1
    /\ SCRATCH_TIMER = 0
    /\ pc = "idle"
    /\ loc = NoLocals
    /\ panicMsg = "none"
    /\ lastIncSrc = "none"
    /\ irqCount = 0
    /\ udElapsed = 0
    /\ mdIncs = 0
    /\ calIncs = NoIncs
    /\ eoiBy = {}
    /\ visited = <<>>

\* durations delay hands to mdelay
MdelayDurations ==
    { d \in Durations : AsMicros(d) >= MICROS_PER_MILLI /\ FitsUsize(AsMillis(d)) }

\* The running kernel at the entry of mdelay, called by delay with
\* interrupts enabled or disabled, the periodic timer counting.
InitTick ==
    /\ platform = SteadyPlatform
    /\ ioapic = [a \in {1} |->
                    [ProgramEntries(IoApicReset(VersionOf(MaxRedir)), 0, 0, MaxRedir, 0,
                                    Destination(BspId))
                        EXCEPT ![RedirReg(0)] = APIC_MASKED]]
    /\ APIC_TICKS_IN_10MS = U32_MAX
    /\ lapicReg =
        LapicWrite(LapicWrite(LapicWrite(
            InitLapicRegs([o \in LapicOffsets |-> IF o = LAPIC_SVR_REG THEN 255 ELSE 0]),
            LAPIC_LVT_TIMER_REG, PeriodicLvt),
            LAPIC_TIMER_INITCNT_REG, ReloadCount(APIC_TICKS_IN_10MS)),
            LAPIC_TIMER_DIV_REG, TIMER_DIVIDE)
    /\ pit = [command |-> PIT_COMMAND,
              reload |-> (PIT_DIVIDER % 256) + Shl(Shr(PIT_DIVIDER, 8) % 256, 8)]
    /\ pic = "disabled"
    /\ irr = {}
    /\ isr = {}
    /\ IFLAG \in BOOLEAN
    /\ hnd = NoHandler
    /\ stack = KernelStack
    /\ tables = [gdt |-> TRUE, cs |-> TRUE, tss |-> TRUE, idt |-> TRUE]
    /\ LAPIC = TRUE
    /\ TIMER = USIZE_MAX - 1
    /\ SCRATCH_TIMER = 0
    /\ pc = "md_outer"
    /\ \E d \in MdelayDurations : loc = [NoLocals EXCEPT !.dur = d, !.millis = AsMillis(d)]
    /\ panicMsg = "none"
    /\ lastIncSrc = "none"
    /\ irqCount = 0
    /\ udElapsed = 0
    /\ mdIncs = 0
    /\ calIncs = NoIncs
    /\ eoiBy = {}
    /\ visited = <<>>

\* ------------------------------------------------------------ specification
Next ==
    \/ KernelStart \/ GdtLoad \/ SetCs \/ LoadTss \/ IdtLoad \/ AcpiTables
    \/ InitAndDisableOldPic \/ InitLapic \/ InitIoapic \/ TimeInit
    \/ CalProgramPit \/ CalPrepareLapic \/ CalEnable \/ CalSave \/ CalLoop1
    \/ CalArm \/ CalLoop2 \/ CalStop \/ CalRead \/ CalDisable \/ CalStore
    \/ CalMaskPit \/ CalLvtPeriodic \/ CalInitCount \/ CalDivide \/ FinalEnable
    \/ DrawInit \/ KernelLoop \/ HltLoop
    \/ PitEdge \/ LapicTick \/ Deliver
    \/ TimerRead \/ TimerWrite \/ TimerEoi \/ ScratchInc \/ ScratchEoi
    \/ RaiseException \/ BreakpointHandler \/ BreakpointReturn \/ PageFaultHandler
    \/ DoubleFaultHandler \/ HandlerHalted

Spec == Init /\ [][Next]_vars

\* the main flow of kernel_start up to its final loop
MainFlow ==
    \/ KernelStart \/ GdtLoad \/ SetCs \/ LoadTss \/ IdtLoad \/ AcpiTables
    \/ InitAndDisableOldPic \/ InitLapic \/ InitIoapic \/ TimeInit
    \/ CalProgramPit \/ CalPrepareLapic \/ CalEnable \/ CalSave \/ CalLoop1
    \/ CalArm \/ CalLoop2 \/ CalStop \/ CalRead \/ CalDisable \/ CalStore
    \/ CalMaskPit \/ CalLvtPeriodic \/ CalInitCount \/ CalDivide \/ FinalEnable
    \/ DrawInit

\* the handlers of vectors 32 and 33
TimerHandlers == TimerRead \/ TimerWrite \/ TimerEoi \/ ScratchInc \/ ScratchEoi

\* Bring-up without processor exceptions and with responsive timers: the
\* processor keeps executing the main flow and the handlers, the Local APIC
\* delivers what is pending, the PIT keeps raising its edges.
NextBoot ==
    \/ MainFlow \/ KernelLoop \/ HltLoop
    \/ PitEdge \/ PitEdgeAwaited \/ LapicTick \/ Deliver \/ TimerHandlers

\* kernel_start on a platform with at most one I/O APIC
InitBoot == Init /\ Len(platform.io_apics) <= 1

SpecBoot ==
    /\ InitBoot /\ [][NextBoot]_vars
    /\ WF_vars(MainFlow \/ TimerHandlers \/ Deliver \/ PitEdge \/ PitEdgeAwaited)

\* the delay primitives in the running kernel
NextDelay ==
    \/ Delay \/ UdelayLoad \/ UdelayFirstRead \/ UdelayLoop \/ UdelayReturn
    \/ MdelayOuter \/ MdelayCheck \/ MdelayHlt \/ MdelayReturn \/ HltLoop
    \/ LapicTick \/ Deliver \/ TimerRead \/ TimerWrite \/ TimerEoi
    \/ RaiseException \/ BreakpointHandler \/ BreakpointReturn \/ PageFaultHandler
    \/ DoubleFaultHandler \/ HandlerHalted

SpecDelay == InitSteady /\ [][NextDelay]_vars

\* bring-up and the running kernel together
SpecAll == (Init \/ InitSteady) /\ [][Next \/ NextDelay]_vars

\* the kernel has returned from the delay
Idle ==
    /\ Running /\ pc = "idle"
    /\ UNCHANGED vars

\* what the processor does during mdelay
MdelayFlow ==
    \/ MdelayOuter \/ MdelayCheck \/ MdelayHlt \/ MdelayReturn
    \/ Deliver \/ TimerRead \/ TimerWrite \/ TimerEoi

\* One call of mdelay with the periodic timer firing for ever: the
\* processor keeps executing and taking the interrupts delivered to it, the
\* LAPIC timer keeps counting.
NextTick == MdelayFlow \/ Idle \/ LapicTick \/ LapicTickAwaited

SpecTick ==
    /\ InitTick /\ [][NextTick]_vars
    /\ WF_vars(MdelayFlow)
    /\ WF_vars(LapicTick \/ LapicTickAwaited)

\* init_ioapic's loop alone, entry by entry, for the version registers tried
NextRedir == RedirVersion \/ RedirEntry \/ RedirDone \/ HltLoop

SpecRedir == InitRedir /\ [][NextRedir]_vars

\* init_lapic alone, statement by statement, from every register content
NextLapic == LapicModel \/ LapicSvr \/ LapicMaskLvt \/ LapicPublish \/ LapicDone \/ HltLoop

SpecLapic == InitLapicEntry /\ [][NextLapic]_vars

\* ================================================================== claims
\* every redirection entry of every I/O APIC: <<I/O APIC, entry index>>
AllEntries ==
    { e \in (DOMAIN ioapic) \X (0..(MaxRedir + 1)) :
        e[2] < MaxRedirCount(ioapic[e[1]][IOAPICVER]) }

EntryGsi(e) == platform.io_apics[e[1]].global_system_interrupt_base + e[2]
EntryWord(e) == ioapic[e[1]][RedirReg(e[2])]
UnmaskedEntries == { e \in AllEntries : ~IsMasked(EntryWord(e)) }

\* C1: on return from init_ioapic exactly one redirection entry is unmasked,
\* the one whose global interrupt number is the one ISA IRQ 0 is overridden
\* to; it carries vector 32 and every other entry is masked.
C1_OneEntryUnmasked ==
    pc = "time_init" =>
        /\ Cardinality(UnmaskedEntries) = 1
        /\ \A e \in AllEntries :
            IF EntryGsi(e) = PitGsi(platform)
            THEN ~IsMasked(EntryWord(e)) /\ VectorOf(EntryWord(e)) = 32
            ELSE IsMasked(EntryWord(e))

C1_Witness ==
    /\ pc = "time_init"
    /\ Len(platform.io_apics) = 2
    /\ PitGsi(platform) = 2
    /\ UnmaskedEntries # {}

\* positions of the main flow from the return of init_ioapic up to the
\* masking write of calibrate_apic_timer, and from that write on
BeforeMaskPcs ==
    {"time_init", "cal_pit", "cal_prepare", "cal_enable", "cal_saved", "cal_loop1",
     "cal_arm", "cal_loop2", "cal_stop", "cal_read", "cal_disable", "cal_store",
     "cal_maskpit"}
AfterMaskPcs == {"cal_lvt32", "cal_initcnt", "cal_div", "final_enable", "draw_init",
                 "kernel_loop"}

\* C2 as stated: on return from init_ioapic, and until calibration has
\* programmed the PIT, the PIT's redirection entry is still masked.
C2_MaskedOnReturn ==
    pc \in {"time_init", "cal_pit"} =>
        \A pin \in PitPins : IsMasked(ioapic[pin[1]][pin[2]])

\* C2 amended: on return from init_ioapic the PIT's redirection entry
\* carries vector 32 and the boot processor as destination and is already
\* unmasked; calibrate_apic_timer never unmasks it: the entry stays as
\* init_ioapic left it until calibration's single write to it, which masks it.
C2_UnmaskedOnReturn ==
    /\ pc \in BeforeMaskPcs =>
        /\ PitPins # {}
        /\ \A pin \in PitPins :
            /\ ioapic[pin[1]][pin[2]] = 32
            /\ ~IsMasked(ioapic[pin[1]][pin[2]])
            /\ ioapic[pin[1]][pin[2] + 1] = platform.boot_processor * 16777216
    /\ pc \in AfterMaskPcs =>
        \A pin \in PitPins : IsMasked(ioapic[pin[1]][pin[2]])

C2_Witness ==
    /\ pc = "cal_pit"
    /\ \E pin \in PitPins : ~IsMasked(ioapic[pin[1]][pin[2]])

\* C3: the constant stored is u32::MAX minus the current count read after
\* the second PIT edge; the initial count written for periodic mode is that
\* stored value, the LVT timer is vector 32 in periodic mode, and the divide
\* configuration is 3 during the measurement and afterwards.
C3_CalibrationConstant ==
    /\ pc \in {"cal_maskpit", "cal_lvt32", "cal_initcnt", "cal_div"} =>
        APIC_TICKS_IN_10MS = U32_MAX - loc.remaining_count
    /\ pc \in {"cal_div", "final_enable", "draw_init", "kernel_loop"} =>
        /\ lapicReg[LAPIC_TIMER_INITCNT_REG] = APIC_TICKS_IN_10MS
        /\ VectorOf(lapicReg[LAPIC_LVT_TIMER_REG]) = 32
        /\ IsPeriodic(lapicReg[LAPIC_LVT_TIMER_REG])
        /\ ~IsMasked(lapicReg[LAPIC_LVT_TIMER_REG])
    /\ pc \in {"cal_enable", "cal_saved", "cal_loop1", "cal_arm", "cal_loop2", "cal_stop",
               "cal_read", "final_enable", "draw_init", "kernel_loop"} =>
        lapicReg[LAPIC_TIMER_DIV_REG] = 3

C3_Witness ==
    /\ pc = "kernel_loop"
    /\ APIC_TICKS_IN_10MS = 7
    /\ lapicReg[LAPIC_TIMER_INITCNT_REG] = 7

\* C4: during calibration the LAPIC timer is routed to vector 33, not 32: a
\* LAPIC timer expiry inside the window runs the scratch handler only, and
\* every increment of TIMER inside the window comes from a PIT interrupt.
C4_ScratchVectorOnly ==
    pc \in CalWindowPcs =>
        /\ lastIncSrc # "LAPIC"
        /\ \A p \in irr : p.src = "LAPIC" => p.vec = 33
        /\ hnd.src = "LAPIC" =>
            /\ hnd.vec = 33
            /\ hnd.name \in {"scratch_inc", "scratch_eoi"}
        /\ hnd.name \in {"timer_rd", "timer_wr", "timer_eoi"} => hnd.src = "PIT"

C4_Witness ==
    /\ pc \in CalWindowPcs
    /\ SCRATCH_TIMER = 1
    /\ TIMER >= 1
    /\ lastIncSrc = "PIT"

\* C5 as stated: udelay does not return before the LAPIC timer has counted
\* ticks_per_10ms * d / 10000 ticks since its first read of the current
\* count, whatever the count was, a reload of the periodic timer included.
C5_WaitsFullDelay ==
    pc = "ud_ret" => udElapsed >= (APIC_TICKS_IN_10MS * loc.dur) \div 10000

\* C6 as stated: between entry to and return from mdelay the tick counter
\* advances by exactly floor(d_ms / 10) steps.
C6_ExactlyFloor ==
    pc = "md_ret" => mdIncs = (loc.dur \div 1000) \div 10

\* C6 amended: mdelay(d_ms) completes exactly floor(d_ms / 10) wait rounds
\* (none when d_ms < 10) and each round ends only after the tick counter has
\* moved past the value read at its start, so between entry and return the
\* counter advances by at least floor(d_ms / 10) steps; interrupts handled
\* outside the rounds, or several in one round, can make it more.
C6_AtLeastFloor ==
    /\ pc = "md_ret" =>
        /\ mdIncs >= (loc.dur \div 1000) \div 10
        /\ loc.millis = (loc.dur \div 1000) % 10
    /\ pc \in MdelayPcs =>
        mdIncs >= ((loc.dur \div 1000) - loc.millis) \div 10

C6_Witness ==
    /\ pc = "md_ret"
    /\ loc.dur = 25500
    /\ mdIncs = 3

\* C7 as stated: only durations that are a whole number of milliseconds
\* reach the millisecond delay loop; the others (1500 microseconds) panic.
C7_RejectsFractions ==
    pc \in MdelayPcs => loc.dur % 1000 = 0

\* C7 amended: delay(dur) with dur >= 1000 microseconds drops the
\* sub-millisecond remainder (1500 microseconds is delayed as 1 ms, which
\* mdelay returns from at once) and panics, without delaying, only when the
\* whole-millisecond count does not fit a usize; every other duration
\* reaches the millisecond delay loop.
C7_TruncatesToMillis ==
    /\ pc \in MdelayPcs =>
        /\ loc.dur >= 1000
        /\ loc.dur \div 1000 <= USIZE_MAX
        /\ loc.millis <= loc.dur \div 1000
        /\ loc.millis % 10 = (loc.dur \div 1000) % 10
    /\ panicMsg = "delay duration is too long" =>
        /\ loc.dur \div 1000 > USIZE_MAX
        /\ pc = "hlt_loop"
    /\ (pc \in {"ud_load", "ud_first", "ud_loop", "ud_ret"}) => loc.dur < 1000
    /\ pc \in {"md_check", "md_hlt", "md_halted"} => loc.dur \div 1000 >= 10

C7_Witness ==
    /\ pc = "md_ret"
    /\ loc.dur = 1500
    /\ loc.millis = 1

\* C8: the tick counter wraps: at its maximum one timer interrupt makes it
\* zero, without a fault, and the wait loops of calibration and of mdelay
\* leave exactly when the counter differs from the saved value, across the
\* wrap as anywhere else (0 - max = 1).
C8_WrapSafe ==
    [][ /\ (hnd.name = "timer_wr" /\ hnd'.name = "timer_eoi") =>
            /\ TIMER' = IF TIMER = USIZE_MAX THEN 0 ELSE TIMER + 1
            /\ panicMsg' = panicMsg
        /\ (pc = "md_check" /\ pc' \in {"md_outer", "md_hlt"}) =>
            (pc' = "md_outer" <=> TIMER # loc.curr_irq_cnt)
        /\ (pc = "cal_loop1" /\ pc' = "cal_arm") => TIMER # loc.saved_pit_cnt
        /\ (pc = "cal_loop1" /\ pc' = "cal_loop1" /\ loc' # loc) =>
            TIMER = loc.saved_pit_cnt
        /\ (pc = "cal_loop2" /\ pc' = "cal_stop") => TIMER # loc.curr_pit_cnt
      ]_vars

C8_Witness ==
    /\ pc = "md_outer"
    /\ TIMER = 0
    /\ loc.curr_irq_cnt = USIZE_MAX
    /\ loc.millis < loc.dur \div 1000

\* C9: TIMER is written by timer_interrupt_handler (vector 32) only:
\* bring-up, calibration, the delays, the scratch-timer handler and the
\* fault handlers leave it unchanged.
C9_SingleWriter ==
    [][ TIMER' # TIMER => (hnd.name = "timer_wr" /\ hnd.vec = 32) ]_vars

C9_Witness ==
    /\ hnd.name = "timer_eoi"
    /\ SCRATCH_TIMER = 1
    /\ TIMER = 2

\* C10: the double-fault entry is bound to interrupt-stack-table index 0,
\* whose slot is the top of the dedicated 5-page stack; a double fault runs
\* on that stack, no other context does, and the handler never returns: it
\* panics and halts.
C10_DoubleFaultStack ==
    [][ /\ hnd'.name \in {"df", "df_halt"} <=>
            stack' = [region |-> "DOUBLE_FAULT_STACK", offset |-> 4096 * 5]
        /\ hnd'.name \in {"df", "df_halt"} => stack' # KernelStack
        /\ hnd.name \in {"df", "df_halt"} =>
            /\ hnd'.name \in {"df", "df_halt"}
            /\ hnd'.name # hnd.name => panicMsg' = "EXCEPTION: DOUBLE FAULT"
            /\ hnd.name = "df_halt" =>
                (hnd'.name = "df_halt" /\ panicMsg' = "EXCEPTION: DOUBLE FAULT")
            /\ pc' = pc
            /\ IFLAG' = FALSE
      ]_vars

C10_Witness ==
    /\ hnd.name = "df_halt"
    /\ pc = "cal_loop2"
    /\ stack.region = "DOUBLE_FAULT_STACK"
    /\ panicMsg = "EXCEPTION: DOUBLE FAULT"

\* the positions of the main flow in program order
BootOrder ==
    <<"kernel_start", "gdt_load", "set_cs", "load_tss", "idt_load", "acpi", "old_pic",
      "init_lapic", "init_ioapic", "time_init", "cal_pit", "cal_prepare", "cal_enable",
      "cal_saved", "cal_loop1", "cal_arm", "cal_loop2", "cal_stop", "cal_read",
      "cal_disable", "cal_store", "cal_maskpit", "cal_lvt32", "cal_initcnt", "cal_div",
      "final_enable", "draw_init", "kernel_loop">>

Rank(p) == IF \E i \in DOMAIN BootOrder : BootOrder[i] = p
           THEN CHOOSE i \in DOMAIN BootOrder : BootOrder[i] = p
           ELSE 0

\* the platform description is APIC-based, names the boot processor, has an
\* override of ISA IRQ 0 and an I/O APIC entry for the overridden interrupt
WellFormed ==
    /\ platform.interrupt_model = "Apic"
    /\ platform.processor_info
    /\ PitOverrides(platform) # <<>>
    /\ \E a \in 1..Len(platform.io_apics) :
         \E idx \in 0..(MaxRedirCount(platform.io_apics[a].version) - 1) :
            idx + platform.io_apics[a].global_system_interrupt_base = PitGsi(platform)

\* C11, order: the main flow moves through setup::init in program order,
\* each stage once (a stage is left for the next one or for the panic halt),
\* and each stage's effect is there exactly from that stage on: the tables
\* loaded, the legacy PIC disabled, the LAPIC handle published, the I/O APIC
\* programmed, the timer calibrated; the main flow's interrupt flag is set
\* by calibration's own enable and by the final enable only.
C11_StageEffects ==
    /\ pc # "hlt_loop" =>
        /\ tables.idt <=> Rank(pc) > Rank("idt_load")
        /\ pic = "disabled" <=> Rank(pc) > Rank("old_pic")
        /\ LAPIC <=> Rank(pc) > Rank("init_lapic")
        /\ UnmaskedEntries # {} => Rank(pc) > Rank("init_ioapic")
        /\ IsPeriodic(lapicReg[LAPIC_LVT_TIMER_REG]) <=> Rank(pc) > Rank("cal_lvt32")
        /\ Rank(pc) >= Rank("final_enable") =>
            /\ UnmaskedEntries = {}
            /\ lapicReg[LAPIC_TIMER_INITCNT_REG] = APIC_TICKS_IN_10MS
        /\ (Rank(pc) > Rank("final_enable") /\ Running) => IFLAG
        /\ Rank(pc) <= Rank("cal_enable") => ~IFLAG
    /\ WellFormed => (pc # "hlt_loop" /\ panicMsg = "none")

C11_StageOrder ==
    [][ pc' # pc =>
          /\ Rank(pc) > 0
          /\ pc' = "hlt_loop" \/ Rank(pc') = Rank(pc) + 1 ]_vars

\* C11: setup::init performs descriptor-table bring-up, the legacy PIC
\* disable, Local APIC bring-up, I/O APIC bring-up, calibration and the
\* final interrupt enable in this order, each once; on a well-formed
\* platform with responsive timers it reaches and performs the final enable
\* without a panic.
C11_BringUpSequence ==
    /\ []C11_StageEffects
    /\ C11_StageOrder
    /\ (WellFormed => <>(pc = "draw_init" /\ panicMsg = "none"))

C11_Witness ==
    /\ pc = "draw_init"
    /\ IFLAG
    /\ WellFormed
    /\ TIMER >= 2
    /\ APIC_TICKS_IN_10MS > 0

\* positions of the main flow after the interrupt disable of
\* calibrate_apic_timer, up to the caller's interrupt enable
AfterDisablePcs ==
    {"cal_store", "cal_maskpit", "cal_lvt32", "cal_initcnt", "cal_div", "final_enable"}

\* C12: when calibrate_apic_timer, and so time::init, has returned,
\* interrupts are disabled: up to setup::init's own enable no handler runs
\* and the counters TIMER and SCRATCH_TIMER do not move, even with a timer
\* interrupt pending in the Local APIC.
C12_DisabledOnReturn ==
    [][ /\ pc' = "final_enable" =>
            /\ ~IFLAG'
            /\ hnd' = NoHandler
            /\ stack' = KernelStack
        /\ pc \in AfterDisablePcs =>
            /\ hnd'.name = "none"
            /\ TIMER' = TIMER
            /\ SCRATCH_TIMER' = SCRATCH_TIMER
            /\ isr' = isr
            /\ IFLAG' => (pc = "final_enable" /\ pc' = "draw_init")
      ]_vars

C12_Witness ==
    /\ pc = "final_enable"
    /\ \E p \in irr : p.vec = 32 /\ p.src = "LAPIC"
    /\ ~IFLAG

\* the panic each defect of the platform description ends in, in the order
\* in which bring-up meets the defects
ExpectedPanic ==
    IF platform.interrupt_model # "Apic" THEN "unknown interrupt model"
    ELSE IF \A i \in DOMAIN platform.interrupt_source_overrides :
                platform.interrupt_source_overrides[i].isa_source # 0
    THEN "no PIT"
    ELSE IF platform.io_apics # <<>> /\ ~platform.processor_info
    THEN "apic proc info"
    ELSE "could not find redirected PIT IRQ"

C13_NeverStarts ==
    ~WellFormed =>
        /\ pc \in {"kernel_start", "gdt_load", "set_cs", "load_tss", "idt_load", "acpi",
                    "old_pic", "init_lapic", "init_ioapic", "hlt_loop"}
        /\ ~IFLAG
        /\ pit.command = 0
        /\ TIMER = 0
        /\ APIC_TICKS_IN_10MS = 0
        /\ pc = "hlt_loop" <=> panicMsg # "none"
        /\ pc = "hlt_loop" => panicMsg = ExpectedPanic

\* C13: on a platform that is not APIC-based, or has no override of ISA
\* IRQ 0, or no redirection entry for the overridden interrupt, or no
\* boot-processor information, bring-up ends in a panic (the message
\* logged, the processor halted for good): calibration never starts and
\* interrupts are never enabled.
C13_AbortsOnBadPlatform ==
    /\ []C13_NeverStarts
    /\ [][pc = "hlt_loop" => pc' = "hlt_loop"]_vars
    /\ (~WellFormed => <>[](pc = "hlt_loop"))

C13_Witness ==
    /\ pc = "hlt_loop"
    /\ panicMsg = "could not find redirected PIT IRQ"
    /\ platform.io_apics # <<>>
    /\ \A a \in DOMAIN ioapic : \A idx \in 0..(MaxRedir - 1) :
            IsMasked(ioapic[a][RedirReg(idx)])

\* C14: interrupts::init loads the descriptor table first, then the code
\* segment and the task register, and the interrupt table last; the table
\* it loads holds the entries of the breakpoint, the double fault, the page
\* fault and the vectors 32 and 33, and no handler is entered and no
\* interrupt enabled before it is loaded.
C14_LoadOrder ==
    /\ tables.cs => tables.gdt
    /\ tables.tss => tables.cs
    /\ tables.idt => tables.tss
    /\ tables.gdt <=> Rank(pc) \notin {Rank("kernel_start"), Rank("gdt_load")}
    /\ tables.idt =>
        /\ {3, 8, 14, 32, 33} \subseteq DOMAIN IDT
        /\ IDT[3].handler = "breakpoint_handler"
        /\ IDT[8].handler = "double_fault_handler"
        /\ IDT[14].handler = "page_fault_handler"
        /\ IDT[32].handler = "timer_interrupt_handler"
        /\ IDT[33].handler = "scratch_timer_interrupt_handler"
    /\ ~tables.idt => (hnd.name = "none" /\ ~IFLAG)

C14_Witness ==
    /\ pc = "acpi"
    /\ hnd.name = "bp"
    /\ tables = [gdt |-> TRUE, cs |-> TRUE, tss |-> TRUE, idt |-> TRUE]

C16_WaitsForEdges ==
    /\ pc \in {"cal_arm", "cal_loop2", "cal_stop", "cal_read"} => calIncs.saved >= 1
    /\ pc \in {"cal_stop", "cal_read"} =>
        /\ calIncs.curr >= 1
        /\ calIncs.saved >= 2
        /\ TIMER # loc.curr_pit_cnt
    /\ pc \in {"cal_enable", "cal_saved", "cal_loop1", "cal_arm"} =>
        /\ lapicReg[LAPIC_TIMER_INITCNT_REG] = 0
        /\ lapicReg[LAPIC_TIMER_CURRCNT_REG] = 0
    /\ pc \in {"cal_loop2", "cal_stop"} =>
        /\ lapicReg[LAPIC_TIMER_INITCNT_REG] = U32_MAX
        /\ ~IsMasked(lapicReg[LAPIC_LVT_TIMER_REG])
        /\ loc.remaining_count = 0

C16_Witness ==
    /\ pc = "cal_stop"
    /\ calIncs = [saved |-> 2, curr |-> 1, arm |-> 1]
    /\ lapicReg[LAPIC_TIMER_CURRCNT_REG] < U32_MAX

\* C17 as stated: no timer interrupt is handled between the end of the
\* first wait and the arming write, and exactly one is handled between the
\* arming write and the read of the current count, whatever the
\* interleaving.
C17_OnePitPeriod ==
    /\ pc = "cal_arm" => calIncs.curr = 0
    /\ pc \in {"cal_stop", "cal_read"} => calIncs.arm = 1

\* C18: the PIT's redirection entry and the LAPIC timer's LVT entry are
\* never both unmasked with vector 32: the PIT's entry is masked before the
\* LVT entry is given vector 32.
C18_OneSourceAtATime ==
    LET lvt == lapicReg[LAPIC_LVT_TIMER_REG]
        lapicOn32 == ~IsMasked(lvt) /\ VectorOf(lvt) = TimerVector
    IN  /\ ~(lapicOn32 /\ UnmaskedEntries # {})
        /\ IsPeriodic(lvt) => UnmaskedEntries = {}
        /\ pc \in {"cal_lvt32", "cal_initcnt", "cal_div", "final_enable", "draw_init",
                    "kernel_loop"} =>
            \A pin \in PitPins : ioapic[pin[1]][pin[2]] = APIC_MASKED
        /\ (pc \in CalWindowPcs /\ ~IsMasked(lvt)) => VectorOf(lvt) = ScratchTimerVector

C18_Witness ==
    /\ pc = "kernel_loop"
    /\ lapicReg[LAPIC_LVT_TIMER_REG] = PeriodicLvt
    /\ PitPins # {}
    /\ lastIncSrc = "LAPIC"

\* positions of the main flow from the return of init_lapic to the arming
\* write of calibrate_apic_timer
UntilArmPcs ==
    {"init_ioapic", "time_init", "cal_pit", "cal_prepare", "cal_enable", "cal_saved",
     "cal_loop1", "cal_arm"}

\* C19 as stated: from init_lapic until the arming write the LVT timer
\* entry has its mask bit set.
C19_MaskedUntilArm ==
    pc \in UntilArmPcs => IsMasked(lapicReg[LAPIC_LVT_TIMER_REG])

\* C19 amended: the LVT timer entry is masked from init_lapic until
\* calibration's prepare step, which writes the bare scratch vector 33 and
\* so unmasks it (one-shot); until the arming write the timer is merely not
\* counting (initial and current count 0), so it cannot fire.  The arming
\* write changes the initial count only; the entry is masked again after the
\* second wait.
C19_UnmaskedFromPrepare ==
    LET lvt == lapicReg[LAPIC_LVT_TIMER_REG]
    IN  /\ pc \in {"init_ioapic", "time_init", "cal_pit", "cal_prepare"} =>
            lvt = APIC_MASKED
        /\ pc \in {"cal_enable", "cal_saved", "cal_loop1", "cal_arm", "cal_loop2",
                    "cal_stop"} =>
            /\ lvt = ScratchTimerVector
            /\ ~IsMasked(lvt) /\ ~IsPeriodic(lvt)
        /\ pc \in {"cal_enable", "cal_saved", "cal_loop1", "cal_arm"} =>
            /\ lapicReg[LAPIC_TIMER_INITCNT_REG] = 0
            /\ lapicReg[LAPIC_TIMER_CURRCNT_REG] = 0
            /\ SCRATCH_TIMER = 0
            /\ \A p \in irr : p.src # "LAPIC"
        /\ pc \in {"cal_read", "cal_disable", "cal_store", "cal_maskpit", "cal_lvt32"} =>
            lvt = APIC_MASKED

C19_Witness ==
    /\ pc = "cal_loop1"
    /\ IFLAG
    /\ lapicReg[LAPIC_LVT_TIMER_REG] = ScratchTimerVector
    /\ TIMER = 1

\* C20 as stated: the PIT's entry is masked and the LAPIC timer
\* reprogrammed while interrupts are still enabled; the disable comes last.
C20_DisableLast ==
    (pc \in {"cal_maskpit", "cal_lvt32", "cal_initcnt", "cal_div"} /\ Running) => IFLAG

\* C20 amended: calibrate_apic_timer disables interrupts right after the
\* read of the current count, with the PIT's entry still unmasked and the
\* LAPIC timer masked; the store of the constant, the masking of the PIT's
\* entry and the reprogramming of the LAPIC timer all run with interrupts
\* disabled, and nothing enables them again before the function returns.
C20_DisableFirst ==
    [][ /\ (pc = "cal_disable" /\ pc' = "cal_store") =>
            /\ IFLAG /\ ~IFLAG'
            /\ \A pin \in PitPins : ~IsMasked(ioapic[pin[1]][pin[2]])
            /\ lapicReg[LAPIC_LVT_TIMER_REG] = APIC_MASKED
            /\ APIC_TICKS_IN_10MS = 0
        /\ (ioapic' # ioapic /\ pc = "cal_maskpit") => (~IFLAG /\ ~IFLAG')
        /\ (APIC_TICKS_IN_10MS' # APIC_TICKS_IN_10MS) => (~IFLAG /\ ~IFLAG')
        /\ (pc \in {"cal_lvt32", "cal_initcnt", "cal_div"} /\ pc' # pc) =>
            (~IFLAG /\ ~IFLAG' /\ hnd.name = "none")
      ]_vars

C20_Witness ==
    /\ pc = "cal_initcnt"
    /\ ~IFLAG
    /\ lapicReg[LAPIC_LVT_TIMER_REG] = PeriodicLvt
    /\ APIC_TICKS_IN_10MS > 0

\* the steps of timer_interrupt_handler
TimerSteps == {"timer_rd", "timer_wr", "timer_eoi"}

\* what holds of the handler of vector 32 and of the readers of TIMER in
\* every state
C21_Observed ==
    /\ hnd.name \in TimerSteps =>
        (~IFLAG /\ hnd.vec = TimerVector /\ TimerVector \in isr)
    /\ hnd.name = "timer_wr" => hnd.time = TIMER
    /\ hnd.name = "timer_eoi" => TIMER = (hnd.time + 1) % (USIZE_MAX + 1)
    /\ (pc \in {"cal_loop1", "cal_arm", "cal_loop2", "cal_stop", "cal_read"}
          /\ calIncs.saved < GhostCap) =>
        (TIMER - loc.saved_pit_cnt) % (USIZE_MAX + 1) = calIncs.saved
    /\ (pc \in {"cal_arm", "cal_loop2", "cal_stop", "cal_read"}
          /\ calIncs.curr < GhostCap) =>
        (TIMER - loc.curr_pit_cnt) % (USIZE_MAX + 1) = calIncs.curr
    /\ (pc \in {"md_check", "md_hlt", "md_halted"} /\ mdIncs < GhostCap) =>
        (TIMER - loc.curr_irq_cnt) % (USIZE_MAX + 1) <= mdIncs

\* what holds of every step that changes TIMER or is taken by the handler of
\* vector 32
C21_Step ==
    /\ TIMER' # TIMER =>
        (hnd.name = "timer_wr" /\ TIMER' = (TIMER + 1) % (USIZE_MAX + 1))
    /\ (hnd.name \in TimerSteps /\ hnd'.name \notin TimerSteps) =>
        /\ hnd.name = "timer_eoi" /\ hnd'.name = "none"
        /\ isr' = isr \ {TimerVector}
        /\ TIMER' = TIMER
    /\ hnd.name \in {"timer_rd", "timer_wr"} =>
        (isr' = isr /\ eoiBy' = eoiBy)

\* C21: each delivery of vector 32 adds exactly 1 to TIMER, modulo the word
\* size, and then writes end-of-interrupt once.  The handler runs with the
\* interrupt flag clear and nothing else writes TIMER, so the value it read
\* is still the counter's value when it writes (no increment is lost), and
\* what a preempted reader (calibration, mdelay) has read lies behind the
\* counter by exactly the increments handled since.
C21_IncrementThenEoi == []C21_Observed /\ [][C21_Step]_vars

C21_Witness ==
    /\ hnd.name = "timer_eoi"
    /\ hnd.time = USIZE_MAX
    /\ TIMER = 0
    /\ pc = "md_check"
    /\ loc.curr_irq_cnt = USIZE_MAX

\* the steps of the three exception handlers
FaultSteps == {"bp", "bp_ret", "pf", "pf_halt", "df", "df_halt"}

\* what holds whenever the page-fault or the breakpoint handler has logged
C22_Logged ==
    /\ hnd.name = "pf_halt" =>
        /\ hnd.log = <<"EXCEPTION: PAGE FAULT", "Accessed Address", "Error Code",
                       "stack_frame">>
        /\ hnd.vec = PageFaultVector
        /\ ~IFLAG
    /\ hnd.name = "bp_ret" =>
        (hnd.log = <<"EXCEPTION: BREAKPOINT", "stack_frame">> /\ hnd.vec = BreakpointVector)
    /\ hnd.name \in {"pf", "bp"} => hnd.log = <<>>

\* what holds of every step taken while an exception handler is running
C22_Step ==
    /\ hnd.name = "pf" => hnd'.name \in {"pf", "pf_halt"}
    /\ hnd.name = "pf_halt" => (hnd' = hnd /\ pc' = pc /\ IFLAG' = IFLAG)
    /\ hnd.name = "bp" => hnd'.name \in {"bp", "bp_ret"}
    /\ hnd.name = "bp_ret" =>
        \/ hnd' = hnd
        \/ /\ hnd'.name = "none"
           /\ IFLAG' = hnd.savedIF
           /\ stack' = hnd.savedStack
    /\ hnd.name \in FaultSteps => (pc' = pc /\ loc' = loc)
    /\ hnd.name \in FaultSteps =>
        /\ TIMER' = TIMER
        /\ APIC_TICKS_IN_10MS' = APIC_TICKS_IN_10MS
        /\ ioapic' = ioapic
        /\ \A o \in {LAPIC_LVT_TIMER_REG, LAPIC_LVT_LINT0_REG, LAPIC_LVT_LINT1_REG} :
              lapicReg'[o] = lapicReg[o]

\* C22: the page-fault handler logs the faulting address, the error code
\* and the frame and then halts forever: it never returns to the faulting
\* instruction.  The breakpoint handler logs the frame and returns, and the
\* interrupted code resumes where it was, with its interrupt flag and stack.
\* No exception handler changes TIMER, the calibration constant, an I/O APIC
\* redirection entry or a local-vector-table register.
C22_FaultHandlers == []C22_Logged /\ [][C22_Step]_vars

C22_Witness ==
    /\ hnd.name = "pf_halt"
    /\ pc = "cal_loop2"
    /\ hnd.savedIF
    /\ \E p \in irr : p.vec = TimerVector
    /\ ~IsMasked(lapicReg[LAPIC_LVT_TIMER_REG])

\* bit b of the register word v
BitAt(v, b) == (v \div Pow2(b)) % 2

\* what holds at each position of init_lapic
C23_State ==
    LET svr == lapicReg[LAPIC_SVR_REG]
        masked(k) == lapicReg[LvtOrder[k]] = APIC_MASKED /\ IsMasked(lapicReg[LvtOrder[k]])
    IN  /\ pc \in {"il_lvt_timer", "il_lvt_lint0", "il_lvt_lint1", "il_publish", "il_done"} =>
            /\ BitAt(svr, 8) = 1
            /\ \A b \in (0..30) \ {8} : BitAt(svr, b) = BitAt(loc.reg, b)
        /\ pc \in {"il_lvt_lint0", "il_lvt_lint1", "il_publish", "il_done"} => masked(1)
        /\ pc \in {"il_lvt_lint1", "il_publish", "il_done"} => masked(2)
        /\ pc \in {"il_publish", "il_done"} => masked(3)
        /\ LAPIC <=> pc = "il_done"
        /\ LAPIC => (BitAt(svr, 8) = 1 /\ \A k \in 1..3 : masked(k))
        /\ pc = "hlt_loop" => (~LAPIC /\ panicMsg = "unknown interrupt model")

\* what holds of every step of init_lapic
C23_Step ==
    /\ lapicReg'[LAPIC_SVR_REG] # lapicReg[LAPIC_SVR_REG] =>
        /\ pc = "il_svr"
        /\ lapicReg'[LAPIC_SVR_REG] = lapicReg[LAPIC_SVR_REG] + SVR_ENABLE
        /\ BitAt(lapicReg[LAPIC_SVR_REG], 8) = 0
    /\ pc = "il_svr" => loc'.reg = lapicReg[LAPIC_SVR_REG]
    /\ \A o \in LapicOffsets \ {LAPIC_SVR_REG, LAPIC_LVT_TIMER_REG, LAPIC_LVT_LINT0_REG,
                                 LAPIC_LVT_LINT1_REG} : lapicReg'[o] = lapicReg[o]
    /\ LAPIC' # LAPIC => (pc = "il_publish" /\ lapicReg' = lapicReg)
    /\ IFLAG' = IFLAG /\ ioapic' = ioapic

\* C23: init_lapic sets bit 8 of the spurious-interrupt-vector register and
\* leaves every other bit of it as it was, then writes the masked value to
\* the timer, LINT0 and LINT1 local-vector-table registers, and only then
\* publishes the LAPIC handle; on return the three lines are masked.  It
\* writes no other register.
C23_EnableMaskPublish == []C23_State /\ [][C23_Step]_vars

C23_Witness ==
    /\ pc = "il_done"
    /\ LAPIC
    /\ loc.reg = 4351
    /\ lapicReg[LAPIC_SVR_REG] = 4351 + 256
    /\ \A k \in 1..3 : lapicReg[LvtOrder[k]] = APIC_MASKED

\* what holds of mdelay when its caller runs with interrupts disabled
C24_StuckWhenDisabled ==
    (Running /\ ~IFLAG) =>
        /\ TIMER = USIZE_MAX - 1
        /\ pc \in {"md_ret", "idle"} => loc.dur < MDELAY_STEP * MICROS_PER_MILLI
        /\ loc.dur >= MDELAY_STEP * MICROS_PER_MILLI =>
            (loc.millis = loc.dur \div MICROS_PER_MILLI /\ mdIncs = 0)

\* C24: with interrupts enabled and the periodic timer firing, mdelay(d_ms)
\* with d_ms >= 10 returns in the end, also when a tick is handled between
\* the test of the counter and the hlt; with interrupts disabled it never
\* returns (the counter never moves).
C24_ReturnsIffEnabled ==
    /\ (pc \in MdelayPcs /\ Running /\ IFLAG) ~> (pc = "idle")
    /\ []C24_StuckWhenDisabled

C24_Witness ==
    /\ pc = "md_halted"
    /\ Running /\ IFLAG
    /\ loc.millis >= MDELAY_STEP
    /\ TIMER # loc.curr_irq_cnt
    /\ irr = {}

\* positions of the main flow inside udelay
UdelayPcs == {"ud_load", "ud_first", "ud_loop", "ud_ret"}

\* C25 as stated: a call of delay with a duration under 1000 microseconds
\* stays on the sub-millisecond path until it returns: it is never in
\* mdelay, never halts the processor and does not depend on the interrupt
\* flag.
C25_SubMilliPath ==
    (loc.dur > 0 /\ AsMicros(loc.dur) < MICROS_PER_MILLI) =>
        /\ pc \in UdelayPcs
        /\ panicMsg = "none" \/ hnd.name # "none"

\* positions of the main flow after calibrate_apic_timer has returned
AfterCalibrationPcs == {"final_enable", "draw_init", "kernel_loop"}

\* C26 as stated: once calibrate_apic_timer has returned, the periodic-timer
\* handler is never entered for an interrupt that came from the PIT, and no
\* increment of TIMER is the PIT's.
C26_NoPitAfterCalibration ==
    pc \in AfterCalibrationPcs =>
        (hnd.name \in TimerSteps => hnd.src # "PIT")

\* C27: whenever the interrupt flag is set, init_lapic has published the
\* LAPIC handle and init_ioapic has programmed the redirection entries:
\* interrupts stay disabled from the entry of setup::init until the enable
\* of calibration (writing a log line restores the flag it found), so the
\* timer handlers never call lapic() on an unset handle.
C27_HandleBeforeEnable ==
    /\ IFLAG =>
        /\ LAPIC
        /\ Rank(pc) >= Rank("cal_saved")
        /\ UnmaskedEntries \subseteq { e \in AllEntries : EntryGsi(e) = PitGsi(platform) }
        /\ \A e \in AllEntries :
              EntryGsi(e) = PitGsi(platform) => EntryWord(e) \in {TimerVector, APIC_MASKED}
    /\ (Rank(pc) < Rank("cal_saved")) => (~IFLAG /\ isr = {})
    /\ hnd.name \in TimerSteps \cup {"scratch_inc", "scratch_eoi"} =>
        (LAPIC /\ hnd.savedIF /\ Rank(pc) >= Rank("cal_saved"))

C27_Witness ==
    /\ pc = "cal_loop1"
    /\ hnd.name = "timer_eoi"
    /\ LAPIC
    /\ hnd.savedIF

\* C28 (as stated): for every value of the version register the count
\* (version >> 16) truncated to 8 bits, plus 1, and every register index
\* 0x10 + 2 * idx below it fit 8 bits: init_ioapic does not panic, the count
\* it loops to is that sum, every entry written so far was written at
\* 0x10 + 2 * idx, and at the return entries 0 .. count-1 have each been
\* visited exactly once
C28_EveryEntryOnce ==
    pc \in {"io_entry", "io_done", "hlt_loop"} =>
        /\ panicMsg = "none"
        /\ loc.max_redir_count = MaxRedirCount(loc.ioapicver)
        /\ \A i \in 1..Len(visited) : visited[i] = RedirReg(i - 1)
        /\ pc = "io_done" => Len(visited) = MaxRedirCount(loc.ioapicver)

====
